---- MODULE Spec2Model ----
(***************************************************************************)
(* Model of the local persistence layer of adhyatmik-hisab                 *)
(* (src/src/db/index.ts): the Dexie tables categories, habits, logEntries  *)
(* and settings, the versioned schema with its v1 -> v2 upgrade, the       *)
(* table hooks that stamp timestamps, and the exported store operations.   *)
(*                                                                         *)
(* A stored object is a function from property names to values, so that    *)
(* "'interval' in habit" is  "interval" \in DOMAIN habit.  A property      *)
(* whose type is optional (note?, skippedReason?, trackingDay?, ...) holds *)
(* <<>> for the JavaScript value undefined and <<v>> for the value v.      *)
(* LogEntry.value (boolean | string | number) is written as a string:      *)
(* "true", "false", a rating option or a numeral.                          *)
(***************************************************************************)
EXTENDS Integers, Sequences, FiniteSets, TLC

\* ------------------------------------------------------------------ bounds
MaxClock == 1
MaxIds == 3
MaxCategories == 3
MaxHabits == 3
MaxOptions == 4
MaxSeconds == 60
MaxInFlight == 2

\* ------------------------------------------------------- program constants
CURRENT_DB_VERSION == 2
SHUBH_HISAB_ID == "shubh-hisab"
ASHUBH_HISAB_ID == "ashubh-hisab"

\* -------------------------------------------------------------- the inputs
LogHabitIds == {"h1"}
Dates == {"2026-01-05", "2026-01-06"}
Values == {"true", "false"}
Notes == {<<>>, <<"note">>}
Reasons == {"sick"}

VARIABLES categories, habits, logEntries, settings, storedVersion, isOpen,
          now, idSeq, ret, dc, tx, app, view, formData, store, lockScreen,
          doc, calls

vars == <<categories, habits, logEntries, settings, storedVersion, isOpen,
          now, idSeq, ret, dc, tx, app, view, formData, store, lockScreen,
          doc, calls>>

\* --------------------------------------------------- JavaScript objects
Has(o, k) == k \in DOMAIN o

Merge(o, p) == [k \in DOMAIN o \cup DOMAIN p |-> IF k \in DOMAIN p THEN p[k] ELSE o[k]]

Without(o, ks) == [k \in DOMAIN o \ ks |-> o[k]]

\* a read of property k: undefined when the object has no such property
Get(o, k) == IF k \in DOMAIN o THEN o[k] ELSE <<>>

OptionalProps ==
    {"note", "skippedReason", "options", "trackingDay", "trackingDate", "reminderTime"}

\* the properties of a change set whose value is undefined
UndefinedProps(ch) == {k \in DOMAIN ch \cap OptionalProps : ch[k] = <<>>}

\* Dexie's Table.update applies each change by setByKeyPath, which deletes
\* the property when the new value is undefined
ApplyChanges(o, ch) == Without(Merge(o, ch), UndefinedProps(ch))

\* ------------------------------------------------------------ table hooks
logEntriesCreating(obj) == Merge(obj, [createdAt |-> now, updatedAt |-> now])

logEntriesUpdating(modifications) == Merge(modifications, [updatedAt |-> now])

categoriesCreating(obj) == Merge(obj, [createdAt |-> now])

habitsCreating(obj) == Merge(obj, [createdAt |-> now])

\* the 'creating' hook subscribed on the table of that name, if any
Creating(name, obj) ==
    CASE name = "logEntries" -> logEntriesCreating(obj)
      [] name = "categories" -> categoriesCreating(obj)
      [] name = "habits" -> habitsCreating(obj)
      [] OTHER -> obj

\* the 'updating' hook subscribed on the table of that name, if any
Updating(name, modifications) ==
    CASE name = "logEntries" -> logEntriesUpdating(modifications)
      [] OTHER -> modifications

\* ------------------------------------------------------- table operations
TableAdd(name, table, obj) ==
    [k \in DOMAIN table \cup {obj.id} |->
        IF k = obj.id THEN Creating(name, obj) ELSE table[k]]

TableUpdate(name, table, id, changes) ==
    IF id \notin DOMAIN table THEN table
    ELSE [table EXCEPT ![id] = ApplyChanges(table[id], Updating(name, changes))]

TableDelete(table, ids) == [k \in DOMAIN table \ ids |-> table[k]]

EmptyTable == [k \in {} |-> k]

\* ------------------------------------------------------------- generateId
IdNum(id) == CHOOSE n \in 0..(MaxIds + 1) : ToString(n) = id

generateId == ToString(idSeq + 1)

\* --------------------------------------------------------------- logHabit
\* a lookup that forgets the date half of the compound key
EntriesForHabitOnly(habitId, date) ==
    {id \in DOMAIN logEntries : logEntries[id].habitId = habitId}

\* where('[habitId+date]').equals([habitId, date])
EntriesFor(habitId, date) ==
    {id \in DOMAIN logEntries :
        logEntries[id].habitId = habitId /\ logEntries[id].date = date}

\* .first(): the lowest primary key among the entries of the index key
First(ids) == CHOOSE id \in ids : \A other \in ids : IdNum(id) <= IdNum(other)

\* an update that forgets the note
logHabitChangesNoNote(value, note) == [value |-> value, updatedAt |-> now]

logHabitChanges(value, note) == [value |-> value, note |-> note, updatedAt |-> now]

LogHabit(habitId, date, value, note) ==
    /\ isOpen
    /\ LET existing == EntriesFor(habitId, date) IN
       IF existing # {}
       THEN /\ logEntries' = TableUpdate("logEntries", logEntries, First(existing),
                                         logHabitChanges(value, note))
            /\ ret' = [op |-> "logHabit", arg |-> habitId, out |-> First(existing)]
            /\ UNCHANGED idSeq
       ELSE /\ idSeq < MaxIds
            /\ logEntries' = TableAdd("logEntries", logEntries,
                                [id |-> generateId, habitId |-> habitId, date |-> date,
                                 value |-> value, note |-> note,
                                 createdAt |-> now, updatedAt |-> now])
            /\ ret' = [op |-> "logHabit", arg |-> habitId, out |-> generateId]
            /\ idSeq' = idSeq + 1
    /\ UNCHANGED <<categories, habits, settings, storedVersion, isOpen, now, dc, tx, app, view, formData, store,
                   lockScreen, doc, calls>>

\* -------------------------------------------------------------- skipHabit
skipHabitChanges(reason) == [skippedReason |-> <<reason>>, updatedAt |-> now]

SkipHabit(habitId, date, reason) ==
    /\ isOpen
    /\ LET existing == EntriesFor(habitId, date) IN
       IF existing # {}
       THEN /\ logEntries' = TableUpdate("logEntries", logEntries, First(existing),
                                         skipHabitChanges(reason))
            /\ ret' = [op |-> "skipHabit", arg |-> habitId, out |-> First(existing)]
            /\ UNCHANGED idSeq
       ELSE /\ idSeq < MaxIds
            /\ logEntries' = TableAdd("logEntries", logEntries,
                                [id |-> generateId, habitId |-> habitId, date |-> date,
                                 value |-> "false", skippedReason |-> <<reason>>,
                                 createdAt |-> now, updatedAt |-> now])
            /\ ret' = [op |-> "skipHabit", arg |-> habitId, out |-> generateId]
            /\ idSeq' = idSeq + 1
    /\ UNCHANGED <<categories, habits, settings, storedVersion, isOpen, now, dc, tx, app, view, formData, store,
                   lockScreen, doc, calls>>

\* -------------------------------------------------- seedDefaultCategories
ShubhHisab ==
    [id |-> SHUBH_HISAB_ID, name |-> "Shubh Hisab", order |-> 0, isFixed |-> TRUE,
     hisabType |-> "shubh", createdAt |-> now]

AshubhHisab ==
    [id |-> ASHUBH_HISAB_ID, name |-> "Ashubh Hisab", order |-> 1, isFixed |-> TRUE,
     hisabType |-> "ashubh", createdAt |-> now]

\* the categories table after seedDefaultCategories ran on cats
SeededCategories(cats) ==
    LET shubhExists == SHUBH_HISAB_ID \in DOMAIN cats
        ashubhExists == ASHUBH_HISAB_ID \in DOMAIN cats
        withShubh == IF shubhExists THEN cats
                     ELSE TableAdd("categories", cats, ShubhHisab)
    IN  IF ashubhExists THEN withShubh
        ELSE TableAdd("categories", withShubh, AshubhHisab)

\* the settings table after seedDefaultCategories ran on cats and sets
SeededSettings(cats, sets) ==
    IF SHUBH_HISAB_ID \in DOMAIN cats /\ ASHUBH_HISAB_ID \in DOMAIN cats THEN sets
    ELSE Merge(sets, [hasSeededCategories |-> TRUE])

SeedDefaultCategories ==
    /\ isOpen
    /\ categories' = SeededCategories(categories)
    /\ settings' = SeededSettings(categories, settings)
    /\ ret' = [op |-> "seedDefaultCategories", arg |-> "", out |-> "ok"]
    /\ UNCHANGED <<habits, logEntries, storedVersion, isOpen, now, idSeq, dc, tx, app, view, formData, store,
                   lockScreen, doc, calls>>

\* ---------------------------------------------------- category operations
CategoryData == {[name |-> "Krodh", hisabType |-> "ashubh"]}

CategoryPatches == {[order |-> 0], [isFixed |-> FALSE]}

\* orderBy('order').last().order
LastOrder(cats) ==
    CHOOSE o \in {cats[c].order : c \in DOMAIN cats} :
        \A c \in DOMAIN cats : cats[c].order <= o

CreateCategory(data) ==
    /\ isOpen
    /\ idSeq < MaxIds
    /\ Cardinality(DOMAIN categories) < MaxCategories
    /\ LET order == IF DOMAIN categories = {} THEN 0 ELSE LastOrder(categories) + 1 IN
       categories' = TableAdd("categories", categories,
                        Merge(data, [id |-> generateId, order |-> order,
                                     isFixed |-> FALSE, createdAt |-> now]))
    /\ idSeq' = idSeq + 1
    /\ ret' = [op |-> "createCategory", arg |-> "", out |-> generateId]
    /\ UNCHANGED <<habits, logEntries, settings, storedVersion, isOpen, now, dc, tx, app, view, formData, store,
                   lockScreen, doc, calls>>

UpdateCategory(id, data) ==
    /\ isOpen
    /\ categories' = TableUpdate("categories", categories, id, data)
    /\ ret' = [op |-> "updateCategory", arg |-> id, out |-> "ok"]
    /\ UNCHANGED <<habits, logEntries, settings, storedVersion, isOpen, now, idSeq, dc, tx, app, view, formData, store,
                   lockScreen, doc, calls>>

\* a deleteCategory without its guard
NeverFixed(id) == FALSE

\* category?.isFixed
IsFixedCategory(id) ==
    id \in DOMAIN categories /\ Has(categories[id], "isFixed") /\ categories[id].isFixed

\* a reassignment to the wrong fixed category
HabitsMovedToAshubh(hs, id) ==
    [h \in DOMAIN hs |-> IF hs[h].categoryId = id
                         THEN ApplyChanges(hs[h], [categoryId |-> ASHUBH_HISAB_ID])
                         ELSE hs[h]]

\* habits.where('categoryId').equals(id).modify({ categoryId: SHUBH_HISAB_ID })
HabitsMovedToShubh(hs, id) ==
    [h \in DOMAIN hs |-> IF hs[h].categoryId = id
                         THEN ApplyChanges(hs[h], [categoryId |-> SHUBH_HISAB_ID])
                         ELSE hs[h]]

\* deleteCategory when nothing else runs between its awaits
DeleteCategory(id) ==
    /\ isOpen
    /\ dc.pc = "idle"
    /\ IF IsFixedCategory(id)
       THEN /\ ret' = [op |-> "deleteCategory", arg |-> id,
                       out |-> "Cannot delete fixed category"]
            /\ UNCHANGED <<categories, habits, formData, store,
                   lockScreen, doc, calls>>
       ELSE /\ habits' = HabitsMovedToShubh(habits, id)
            /\ categories' = TableDelete(categories, {id})
            /\ ret' = [op |-> "deleteCategory", arg |-> id, out |-> "ok"]
    /\ UNCHANGED <<logEntries, settings, storedVersion, isOpen, now, idSeq, dc, tx, app, view, formData, store,
                   lockScreen, doc, calls>>

\* the lists that hold every member of S once
RECURSIVE DistinctSeqs(_)
DistinctSeqs(S) ==
    IF S = {} THEN {<<>>}
    ELSE UNION {{<<x>> \o q : q \in DistinctSeqs(S \ {x})} : x \in S}

\* for (i...) update(orderedIds[i], { order: i }): the last index of an id wins
Reordered(table, orderedIds) ==
    [k \in DOMAIN table |->
        LET at == {i \in DOMAIN orderedIds : orderedIds[i] = k} IN
        IF at = {} THEN table[k]
        ELSE ApplyChanges(table[k],
                [order |-> (CHOOSE i \in at : \A j \in at : j <= i) - 1])]

ReorderCategories(orderedIds) ==
    /\ isOpen
    /\ categories' = Reordered(categories, orderedIds)
    /\ ret' = [op |-> "reorderCategories", arg |-> "", out |-> "ok"]
    /\ UNCHANGED <<habits, logEntries, settings, storedVersion, isOpen, now, idSeq, dc, tx, app, view, formData, store,
                   lockScreen, doc, calls>>

\* useCategories: db.categories.orderBy('order').toArray()
CategoriesOrdered(cats) ==
    CHOOSE q \in DistinctSeqs(DOMAIN cats) :
        \A i, j \in DOMAIN q : i < j => cats[q[i]].order <= cats[q[j]].order

\* ------------------------------------------------------- habit operations
HabitData(categoryIds) ==
    {[name |-> "Japa", categoryId |-> c, type |-> "boolean", interval |-> "daily",
      reminderEnabled |-> FALSE] : c \in categoryIds}

HabitPatches(categoryIds) ==
    {[categoryId |-> c] : c \in categoryIds}

\* where('categoryId').equals(categoryId).filter(h => h.isActive === true)
ActiveInCategory(hs, categoryId) ==
    {h \in DOMAIN hs : hs[h].categoryId = categoryId /\ hs[h].isActive = TRUE}

\* .last(): the index holds equal keys in primary-key order
Last(ids) == CHOOSE id \in ids : \A other \in ids : IdNum(other) <= IdNum(id)

CreateHabit(data) ==
    /\ isOpen
    /\ idSeq < MaxIds
    /\ Cardinality(DOMAIN habits) < MaxHabits
    /\ LET actives == ActiveInCategory(habits, data.categoryId)
           order == IF actives = {} THEN 0 ELSE habits[Last(actives)].order + 1
       IN  habits' = TableAdd("habits", habits,
                        Merge(data, [id |-> generateId, order |-> order,
                                     isActive |-> TRUE, createdAt |-> now]))
    /\ idSeq' = idSeq + 1
    /\ ret' = [op |-> "createHabit", arg |-> data.categoryId, out |-> generateId]
    /\ UNCHANGED <<categories, logEntries, settings, storedVersion, isOpen, now, dc, tx, app, view, formData, store,
                   lockScreen, doc, calls>>

UpdateHabit(id, data) ==
    /\ isOpen
    /\ habits' = TableUpdate("habits", habits, id, data)
    /\ ret' = [op |-> "updateHabit", arg |-> id, out |-> "ok"]
    /\ UNCHANGED <<categories, logEntries, settings, storedVersion, isOpen, now, idSeq, dc, tx, app, view, formData, store,
                   lockScreen, doc, calls>>

\* ------------------------------------------------------ export and import
exportAllData ==
    [schemaVersion |-> CURRENT_DB_VERSION, exportedAt |-> now,
     categories |-> categories, habits |-> habits,
     logEntries |-> logEntries, settings |-> settings]

\* a snapshot written by a build at schema version 1: no hisabType, no interval
OldSnapshot ==
    [schemaVersion |-> 1, exportedAt |-> 0,
     categories |-> ("0" :> [id |-> "0", name |-> "Old", order |-> 0,
                             isFixed |-> FALSE, createdAt |-> 0]),
     habits |-> ("0" :> [id |-> "0", name |-> "Japa", categoryId |-> "0",
                         type |-> "boolean", order |-> 0, isActive |-> TRUE,
                         createdAt |-> 0]),
     logEntries |-> EmptyTable,
     settings |-> EmptyTable]

\* bulkPut into a cleared table: every record is new, so the table's
\* 'creating' hook runs on each of them
BulkPut(name, records) == [k \in DOMAIN records |-> Creating(name, records[k])]

\* the top-level fields that importAllData hands to bulkPut
RequiredFields == {"categories", "habits", "logEntries", "settings"}

\* an import that finds nothing missing
NoMissingFields(data) == {}

\* bulkPut(undefined) throws a TypeError when it reads objects.length
MissingFields(data) == {f \in RequiredFields : ~Has(data, f)}

\* data[f], the records handed to bulkPut
Records(data, f) == IF Has(data, f) THEN data[f] ELSE EmptyTable

\* the whole call runs in db.transaction('rw', [all four tables]): when a
\* bulkPut throws, the transaction aborts and the clear() calls before it
\* are rolled back
ImportAllData(data) ==
    /\ isOpen
    /\ IF MissingFields(data) # {}
       THEN /\ UNCHANGED <<categories, habits, logEntries, settings, formData, store,
                   lockScreen, doc, calls>>
            /\ ret' = [op |-> "importAllData", arg |-> ToString(data.schemaVersion),
                       out |-> "TypeError"]
       ELSE /\ LET cats == BulkPut("categories", Records(data, "categories"))
                   sets == BulkPut("settings", Records(data, "settings"))
               IN  /\ categories' = SeededCategories(cats)
                   /\ settings' = SeededSettings(cats, sets)
            /\ habits' = BulkPut("habits", Records(data, "habits"))
            /\ logEntries' = BulkPut("logEntries", Records(data, "logEntries"))
            /\ ret' = [op |-> "importAllData", arg |-> ToString(data.schemaVersion),
                       out |-> "ok"]
    /\ UNCHANGED <<storedVersion, isOpen, now, idSeq, dc, tx, app, view, formData, store,
                   lockScreen, doc, calls>>

ClearAllData ==
    /\ isOpen
    /\ categories' = SeededCategories(EmptyTable)
    /\ settings' = SeededSettings(EmptyTable, EmptyTable)
    /\ habits' = EmptyTable
    /\ logEntries' = EmptyTable
    /\ ret' = [op |-> "clearAllData", arg |-> "", out |-> "ok"]
    /\ UNCHANGED <<storedVersion, isOpen, now, idSeq, dc, tx, app, view, formData, store,
                   lockScreen, doc, calls>>

\* ------------------------------------------------- version(2).upgrade
Default(o, k, v) == IF Has(o, k) THEN o ELSE Merge(o, k :> v)

\* an upgrade that tags every category 'shubh'
upgradeCategoryOverwriting(category) == Merge(category, [hisabType |-> "shubh"])

upgradeCategory(category) == Default(category, "hisabType", "shubh")

\* an upgrade that sets the interval without looking
upgradeHabitOverwriting(habit) ==
    Default(Default(Default(Default(Merge(habit, [interval |-> "daily"]),
        "trackingDay", <<>>), "trackingDate", <<>>), "reminderEnabled", FALSE),
        "reminderTime", <<>>)

upgradeHabit(habit) ==
    Default(Default(Default(Default(Default(habit,
        "interval", "daily"), "trackingDay", <<>>), "trackingDate", <<>>),
        "reminderEnabled", FALSE), "reminderTime", <<>>)

\* the first use of the database opens it; Dexie runs the upgrade of every
\* declared version above the stored one, and none on a database it creates
Open ==
    /\ ~isOpen
    /\ IF 0 < storedVersion /\ storedVersion < CURRENT_DB_VERSION
       THEN /\ categories' = [c \in DOMAIN categories |-> upgradeCategory(categories[c])]
            /\ habits' = [h \in DOMAIN habits |-> upgradeHabit(habits[h])]
       ELSE UNCHANGED <<categories, habits, formData, store,
                   lockScreen, doc, calls>>
    /\ storedVersion' = CURRENT_DB_VERSION
    /\ isOpen' = TRUE
    /\ ret' = [op |-> "open", arg |-> ToString(storedVersion), out |-> "ok"]
    /\ UNCHANGED <<logEntries, settings, now, idSeq, dc, tx, app, view, formData, store,
                   lockScreen, doc, calls>>

\* the page is closed or reloaded
Close ==
    /\ isOpen
    /\ dc.pc = "idle"
    /\ isOpen' = FALSE
    /\ ret' = [op |-> "close", arg |-> "", out |-> "ok"]
    /\ UNCHANGED <<categories, habits, logEntries, settings, storedVersion, now, idSeq, dc, tx, app, view, formData, store,
                   lockScreen, doc, calls>>

\* --------------------------- deleteCategory, one awaited request at a time
\* const category = await db.categories.get(id); if (category?.isFixed) throw
DeleteCategoryGet(id) ==
    /\ isOpen
    /\ dc.pc = "idle"
    /\ IF IsFixedCategory(id)
       THEN /\ ret' = [op |-> "deleteCategory", arg |-> id,
                       out |-> "Cannot delete fixed category"]
            /\ UNCHANGED dc
       ELSE /\ dc' = [pc |-> "modify", id |-> id]
            /\ UNCHANGED ret
    /\ UNCHANGED <<categories, habits, logEntries, settings, storedVersion, isOpen,
                   now, idSeq, tx, app, view, formData, store,
                   lockScreen, doc, calls>>

\* await db.habits.where('categoryId').equals(id).modify(...)
DeleteCategoryModify ==
    /\ dc.pc = "modify"
    /\ habits' = HabitsMovedToShubh(habits, dc.id)
    /\ dc' = [dc EXCEPT !.pc = "delete"]
    /\ UNCHANGED <<categories, logEntries, settings, storedVersion, isOpen, now,
                   idSeq, ret, tx, app, view, formData, store,
                   lockScreen, doc, calls>>

\* await db.categories.delete(id)
DeleteCategoryDelete ==
    /\ dc.pc = "delete"
    /\ categories' = TableDelete(categories, {dc.id})
    /\ ret' = [op |-> "deleteCategory", arg |-> dc.id, out |-> "ok"]
    /\ dc' = [pc |-> "idle", id |-> "none"]
    /\ UNCHANGED <<habits, logEntries, settings, storedVersion, isOpen, now, idSeq,
                   tx, app, view, formData, store,
                   lockScreen, doc, calls>>

\* ------------------------------------------------------------------ clock
Tick ==
    /\ now < MaxClock
    /\ now' = now + 1
    /\ UNCHANGED <<categories, habits, logEntries, settings, storedVersion, isOpen,
                   idSeq, ret, dc, tx, app, view, formData, store,
                   lockScreen, doc, calls>>

\* ------------------------------------------------------------------- init
NoCall == [op |-> "none", arg |-> "none", out |-> "none"]

Idle == [pc |-> "idle", id |-> "none"]

\* no transaction is in flight
NoTx == [op |-> "none"]

\* no query has returned yet
NoView == [op |-> "none"]

\* the habit form is closed
NoForm == [open |-> FALSE]

\* the application store as create() builds it (the fields the lock uses)
StoreInitial == [isLocked |-> FALSE, pinHash |-> <<>>, pinEnabled |-> FALSE]

\* the LockScreen component at mount: useState(''), useState(false),
\* useState(0), useState(null); a pin is the sequence of its digits.
\* isLockedOut is what the last render computed, timer is the timeout of
\* the lockout effect, verifying holds the runs of verifyPinAsync that await
\* verifyPin, each with the pin and the attempts its effect closed over, and
\* failed counts the incorrect entries since the mount or the last expiry
\* of a lockout (an observation, not a state of the component)
LockScreenMounted ==
    [pin |-> <<>>, error |-> FALSE, attempts |-> 0, lockoutUntil |-> <<>>,
     isLockedOut |-> FALSE, timer |-> <<>>, verifying |-> <<>>, failed |-> 0]

\* the document is visible, no auto-lock timeout is scheduled and
\* localStorage holds no item of the persisted store; timers holds the times
\* at which the scheduled timeouts are due, and hiddenSince is the time of
\* the last change to hidden while the document is hidden (an observation)
DocVisible ==
    [visibilityState |-> "visible", timers |-> {}, localStorage |-> <<>>,
     hiddenSince |-> <<>>]

\* no logHabit or skipHabit call is in flight
NoCalls == <<>>

\* the App component at mount: useState(false), useState(false),
\* useState(true); seed holds the outcome of the two runs of the seeding
\* effect, locked is pinEnabled && isLocked
AppMounted ==
    [isInitialized |-> FALSE, needsSignup |-> FALSE, isCheckingAuth |-> TRUE,
     seed |-> <<"pending", "idle">>, locked |-> FALSE]

\* the App component once the sign-in check and both seeding runs are over
AppReady ==
    [isInitialized |-> TRUE, needsSignup |-> FALSE, isCheckingAuth |-> FALSE,
     seed |-> <<"ok", "ok">>, locked |-> FALSE]

\* a fresh install once the App's mount effect has opened the database and
\* seedDefaultCategories has run on the empty tables
InitSeeded ==
    /\ now = 0
    /\ categories = SeededCategories(EmptyTable)
    /\ settings = SeededSettings(EmptyTable, EmptyTable)
    /\ habits = EmptyTable
    /\ logEntries = EmptyTable
    /\ storedVersion = CURRENT_DB_VERSION
    /\ isOpen = TRUE
    /\ idSeq = 0
    /\ ret = NoCall
    /\ dc = Idle
    /\ tx = NoTx
    /\ app = AppReady
    /\ view = NoView
    /\ formData = NoForm
    /\ store = StoreInitial
    /\ lockScreen = LockScreenMounted
    /\ doc = DocVisible
    /\ calls = NoCalls

\* a database that a build at schema version 1 or 2 left behind, or none
StoredCategories ==
    {[id |-> "0", name |-> "Old", order |-> 0, isFixed |-> FALSE, createdAt |-> 0],
     [id |-> "0", name |-> "Old", order |-> 0, isFixed |-> FALSE, createdAt |-> 0,
      hisabType |-> "ashubh"],
     [id |-> "old", name |-> "Older", order |-> 1, isFixed |-> FALSE, createdAt |-> 0],
     [id |-> "old", name |-> "Older", order |-> 1, isFixed |-> FALSE, createdAt |-> 0,
      hisabType |-> "ashubh"]}

StoredHabits ==
    {[id |-> "0", name |-> "Japa", categoryId |-> "0", type |-> "boolean",
      order |-> 0, isActive |-> TRUE, createdAt |-> 0],
     [id |-> "0", name |-> "Japa", categoryId |-> "0", type |-> "boolean",
      order |-> 0, isActive |-> TRUE, createdAt |-> 0,
      interval |-> "weekly", trackingDay |-> <<3>>, trackingDate |-> <<>>,
      reminderEnabled |-> TRUE, reminderTime |-> <<"07:00">>],
     [id |-> "0", name |-> "Japa", categoryId |-> "0", type |-> "boolean",
      order |-> 0, isActive |-> TRUE, createdAt |-> 0,
      interval |-> "monthly"]}

\* the tables that hold at most one of the given objects per id
TablesOf(objs) ==
    UNION {{t \in [ids -> objs] : \A i \in ids : t[i].id = i} :
              ids \in SUBSET {o.id : o \in objs}}

InitStored ==
    /\ storedVersion \in 0..CURRENT_DB_VERSION
    /\ categories \in (IF storedVersion = 0 THEN {EmptyTable} ELSE TablesOf(StoredCategories))
    /\ habits \in (IF storedVersion = 0 THEN {EmptyTable} ELSE TablesOf(StoredHabits))
    /\ logEntries = EmptyTable
    /\ settings = EmptyTable
    /\ isOpen = FALSE
    /\ now = 0
    /\ idSeq = 0
    /\ ret = NoCall
    /\ dc = Idle
    /\ tx = NoTx
    /\ app = AppMounted
    /\ view = NoView
    /\ formData = NoForm
    /\ store = StoreInitial
    /\ lockScreen = LockScreenMounted
    /\ doc = DocVisible
    /\ calls = NoCalls

\* --------------------------------------------- logging on its own: SpecLog
LogNext ==
    \/ \E h \in LogHabitIds, d \in Dates, v \in Values, n \in Notes : LogHabit(h, d, v, n)
    \/ \E h \in LogHabitIds, d \in Dates, r \in Reasons : SkipHabit(h, d, r)
    \/ Tick

SpecLog == InitSeeded /\ [][LogNext]_vars

\* ------------------------- the category operations, one call at a time: Spec
Next ==
    \/ SeedDefaultCategories
    \/ \E data \in CategoryData : CreateCategory(data)
    \/ \E id \in DOMAIN categories, data \in CategoryPatches : UpdateCategory(id, data)
    \/ \E id \in DOMAIN categories : DeleteCategory(id)
    \/ \E orderedIds \in DistinctSeqs(DOMAIN categories) : ReorderCategories(orderedIds)
    \/ ImportAllData(exportAllData)
    \/ ClearAllData

Spec == InitSeeded /\ [][Next]_vars

\* ---------------------------- deleting categories that own habits: SpecDelete
DeleteNext ==
    \/ SeedDefaultCategories
    \/ \E data \in CategoryData : CreateCategory(data)
    \/ \E data \in HabitData(DOMAIN categories) : CreateHabit(data)
    \/ \E id \in DOMAIN habits, data \in HabitPatches(DOMAIN categories) :
            UpdateHabit(id, data)
    \/ \E id \in DOMAIN categories : DeleteCategory(id)

SpecDelete == InitSeeded /\ [][DeleteNext]_vars

\* -------------------- deleteCategory among other calls in flight: SpecAsync
AsyncNext ==
    \/ SeedDefaultCategories
    \/ \E data \in CategoryData : CreateCategory(data)
    \/ \E data \in HabitData(DOMAIN categories) : CreateHabit(data)
    \/ \E id \in DOMAIN habits, data \in HabitPatches(DOMAIN categories) :
            UpdateHabit(id, data)
    \/ \E id \in DOMAIN categories : DeleteCategoryGet(id)
    \/ DeleteCategoryModify
    \/ DeleteCategoryDelete

SpecAsync == InitSeeded /\ [][AsyncNext]_vars

\* ---------------------------------- opening a stored database: SpecOpen
OpenNext == Open \/ Close \/ Tick

SpecOpen == InitStored /\ [][OpenNext]_vars

\* ------------------------------- export and import over time: SpecTransfer
TransferNext ==
    \/ SeedDefaultCategories
    \/ \E data \in HabitData({SHUBH_HISAB_ID}) : CreateHabit(data)
    \/ \E h \in LogHabitIds, d \in Dates : LogHabit(h, d, "true", <<>>)
    \/ \E data \in {exportAllData, OldSnapshot} : ImportAllData(data)
    \/ Tick

SpecTransfer == InitSeeded /\ [][TransferNext]_vars

\* ------------------------------------------------------------ transactions
\* db.transaction('rw', tables, scope): the scope's requests act on a working
\* copy of the tables (tx.work) that other calls cannot see; the copy
\* replaces the tables when the transaction commits and is dropped when it
\* aborts.
TxCommit ==
    /\ tx.op # "none"
    /\ tx.pc = "commit"
    /\ categories' = IF Has(tx.work, "categories") THEN tx.work.categories ELSE categories
    /\ habits' = IF Has(tx.work, "habits") THEN tx.work.habits ELSE habits
    /\ logEntries' = IF Has(tx.work, "logEntries") THEN tx.work.logEntries ELSE logEntries
    /\ ret' = [op |-> tx.op, arg |-> tx.arg, out |-> "ok"]
    /\ tx' = NoTx
    /\ UNCHANGED <<settings, storedVersion, isOpen, now, idSeq, dc, app, view, formData, store,
                   lockScreen, doc, calls>>

\* a request of the scope fails, or the page goes away before the commit
TxAbort ==
    /\ tx.op # "none"
    /\ ret' = [op |-> tx.op, arg |-> tx.arg, out |-> "aborted at " \o tx.pc]
    /\ tx' = NoTx
    /\ UNCHANGED <<categories, habits, logEntries, settings, storedVersion, isOpen,
                   now, idSeq, dc, app, view, formData, store,
                   lockScreen, doc, calls>>

\* ----------------------------------------- archive, disable, enable a habit
ArchiveHabit(id) ==
    /\ isOpen
    /\ habits' = TableUpdate("habits", habits, id, [isActive |-> FALSE])
    /\ ret' = [op |-> "archiveHabit", arg |-> id, out |-> "ok"]
    /\ UNCHANGED <<categories, logEntries, settings, storedVersion, isOpen, now, idSeq,
                   dc, tx, app, view, formData, store,
                   lockScreen, doc, calls>>

DisableHabit(id) ==
    /\ isOpen
    /\ habits' = TableUpdate("habits", habits, id, [isActive |-> FALSE])
    /\ ret' = [op |-> "disableHabit", arg |-> id, out |-> "ok"]
    /\ UNCHANGED <<categories, logEntries, settings, storedVersion, isOpen, now, idSeq,
                   dc, tx, app, view, formData, store,
                   lockScreen, doc, calls>>

EnableHabit(id) ==
    /\ isOpen
    /\ habits' = TableUpdate("habits", habits, id, [isActive |-> TRUE])
    /\ ret' = [op |-> "enableHabit", arg |-> id, out |-> "ok"]
    /\ UNCHANGED <<categories, logEntries, settings, storedVersion, isOpen, now, idSeq,
                   dc, tx, app, view, formData, store,
                   lockScreen, doc, calls>>

\* ------------------------------------------------------------ deleteHabit
\* a cascade that finds no entries
EntriesOfNoHabit(table, id) == {}

\* logEntries.where('habitId').equals(id)
EntriesOfHabit(table, id) == {e \in DOMAIN table : table[e].habitId = id}

\* db.transaction('rw', [db.habits, db.logEntries], ...)
DeleteHabitBegin(id, deleteEntries) ==
    /\ isOpen
    /\ tx = NoTx
    /\ tx' = [op |-> "deleteHabit", arg |-> id, deleteEntries |-> deleteEntries,
              pc |-> IF deleteEntries THEN "entries" ELSE "habit",
              work |-> [habits |-> habits, logEntries |-> logEntries]]
    /\ UNCHANGED <<categories, habits, logEntries, settings, storedVersion, isOpen,
                   now, idSeq, ret, dc, app, view, formData, store,
                   lockScreen, doc, calls>>

\* await db.logEntries.where('habitId').equals(id).delete()
DeleteHabitEntries ==
    /\ tx.op = "deleteHabit"
    /\ tx.pc = "entries"
    /\ tx' = [tx EXCEPT !.pc = "habit",
                        !.work.logEntries =
                            TableDelete(@, EntriesOfHabit(tx.work.logEntries, tx.arg))]
    /\ UNCHANGED <<categories, habits, logEntries, settings, storedVersion, isOpen,
                   now, idSeq, ret, dc, app, view, formData, store,
                   lockScreen, doc, calls>>

\* await db.habits.delete(id)
DeleteHabitHabit ==
    /\ tx.op = "deleteHabit"
    /\ tx.pc = "habit"
    /\ tx' = [tx EXCEPT !.pc = "commit",
                        !.work.habits = TableDelete(@, {tx.arg})]
    /\ UNCHANGED <<categories, habits, logEntries, settings, storedVersion, isOpen,
                   now, idSeq, ret, dc, app, view, formData, store,
                   lockScreen, doc, calls>>

\* ---------------------------------------- reorderCategories, reorderHabits
\* the lists of distinct members of S, of every length
DistinctLists(S) == UNION {DistinctSeqs(T) : T \in SUBSET S}

\* db.transaction('rw', db.categories, ...)
ReorderCategoriesBegin(orderedIds) ==
    /\ isOpen
    /\ tx = NoTx
    /\ tx' = [op |-> "reorderCategories", arg |-> "", pc |-> "update",
              orderedIds |-> orderedIds, i |-> 0,
              work |-> [categories |-> categories]]
    /\ UNCHANGED <<categories, habits, logEntries, settings, storedVersion, isOpen,
                   now, idSeq, ret, dc, app, view, formData, store,
                   lockScreen, doc, calls>>

\* db.transaction('rw', db.habits, ...); the category id is not used
ReorderHabitsBegin(categoryId, orderedIds) ==
    /\ isOpen
    /\ tx = NoTx
    /\ tx' = [op |-> "reorderHabits", arg |-> categoryId, pc |-> "update",
              orderedIds |-> orderedIds, i |-> 0,
              work |-> [habits |-> habits]]
    /\ UNCHANGED <<categories, habits, logEntries, settings, storedVersion, isOpen,
                   now, idSeq, ret, dc, app, view, formData, store,
                   lockScreen, doc, calls>>

\* an order that counts from one
OrderFromOne(i) == [order |-> i + 1]

\* { order: i }
OrderChange(i) == [order |-> i]

\* for (let i = 0; i < orderedIds.length; i++) await table.update(orderedIds[i], { order: i })
ReorderUpdate ==
    /\ tx.op \in {"reorderCategories", "reorderHabits"}
    /\ tx.pc = "update"
    /\ IF tx.i < Len(tx.orderedIds)
       THEN tx' = [tx EXCEPT
                !.i = @ + 1,
                !.work = IF tx.op = "reorderCategories"
                         THEN [categories |->
                                 TableUpdate("categories", tx.work.categories,
                                             tx.orderedIds[tx.i + 1], OrderChange(tx.i))]
                         ELSE [habits |->
                                 TableUpdate("habits", tx.work.habits,
                                             tx.orderedIds[tx.i + 1], OrderChange(tx.i))]]
       ELSE tx' = [tx EXCEPT !.pc = "commit"]
    /\ UNCHANGED <<categories, habits, logEntries, settings, storedVersion, isOpen,
                   now, idSeq, ret, dc, app, view, formData, store,
                   lockScreen, doc, calls>>

\* ------------------------------- creating among the habit calls: SpecHabits
HabitsNext ==
    \/ tx = NoTx /\ \E data \in HabitData({SHUBH_HISAB_ID, ASHUBH_HISAB_ID}) : CreateHabit(data)
    \/ tx = NoTx /\ \E id \in DOMAIN habits : ArchiveHabit(id)
    \/ tx = NoTx /\ \E id \in DOMAIN habits : DisableHabit(id)
    \/ tx = NoTx /\ \E id \in DOMAIN habits : EnableHabit(id)
    \/ \E id \in DOMAIN habits : DeleteHabitBegin(id, FALSE)
    \/ DeleteHabitHabit
    \/ \E c \in {SHUBH_HISAB_ID}, orderedIds \in DistinctLists(DOMAIN habits) :
            ReorderHabitsBegin(c, orderedIds)
    \/ ReorderUpdate
    \/ TxCommit

SpecHabits == InitSeeded /\ [][HabitsNext]_vars

\* ------------------------------------------------------ useHabitsWithLogs
\* the hisabType argument: undefined, 'shubh' or 'ashubh'
HisabTypes == {<<>>, <<"shubh">>, <<"ashubh">>}

\* hisabType === 'shubh' ? SHUBH_HISAB_ID : hisabType === 'ashubh' ? ASHUBH_HISAB_ID : undefined
CategoryIdOf(hisabType) ==
    IF hisabType = <<"shubh">> THEN <<SHUBH_HISAB_ID>>
    ELSE IF hisabType = <<"ashubh">> THEN <<ASHUBH_HISAB_ID>>
    ELSE <<>>

\* db.habits.filter(h => h.isActive === true && h.categoryId === categoryId)
ActiveHabits(hs, categoryId) ==
    {h \in DOMAIN hs :
        /\ hs[h].isActive = TRUE
        /\ categoryId # <<>> => hs[h].categoryId = categoryId[1]}

\* .sortBy('order'): a stable sort of the habits in primary-key order
SortByOrder(hs, ids) ==
    CHOOSE q \in DistinctSeqs(ids) :
        \A i, j \in DOMAIN q : i < j =>
            \/ hs[q[i]].order < hs[q[j]].order
            \/ hs[q[i]].order = hs[q[j]].order /\ IdNum(q[i]) < IdNum(q[j])

\* logMap.get(habit.id) over the logs of the date: the last log set wins
LogOf(entries, habitId, date) ==
    LET found == {e \in DOMAIN entries :
                    entries[e].date = date /\ entries[e].habitId = habitId}
    IN  IF found = {} THEN <<>> ELSE <<Last(found)>>

useHabitsWithLogs(date, hisabType) ==
    LET sorted == SortByOrder(habits, ActiveHabits(habits, CategoryIdOf(hisabType)))
    IN  [i \in DOMAIN sorted |->
            [habit |-> sorted[i], log |-> LogOf(logEntries, sorted[i], date)]]

\* the Today page renders with the selected date and the active hisab
UseHabitsWithLogs(date, hisabType) ==
    /\ isOpen
    /\ view' = [op |-> "useHabitsWithLogs", date |-> date, hisabType |-> hisabType,
                out |-> useHabitsWithLogs(date, hisabType)]
    /\ UNCHANGED <<categories, habits, logEntries, settings, storedVersion, isOpen,
                   now, idSeq, ret, dc, tx, app, formData, store,
                   lockScreen, doc, calls>>

\* ------------------------------------ the daily view over the store: SpecView
ViewNext ==
    \/ \E data \in CategoryData : CreateCategory(data)
    \/ \E data \in HabitData(DOMAIN categories) : CreateHabit(data)
    \/ \E id \in DOMAIN habits : DisableHabit(id)
    \/ \E h \in DOMAIN habits, d \in Dates : LogHabit(h, d, "true", <<>>)
    \/ \E d \in Dates, t \in HisabTypes : UseHabitsWithLogs(d, t)

SpecView == InitSeeded /\ [][ViewNext]_vars

\* --------------------------- deleting habits that have logs: SpecDeleteHabit
DeleteHabitNext ==
    \/ tx = NoTx /\ \E data \in HabitData({SHUBH_HISAB_ID}) : CreateHabit(data)
    \/ tx = NoTx /\ \E h \in DOMAIN habits, d \in Dates : LogHabit(h, d, "true", <<>>)
    \/ \E id \in DOMAIN habits, deleteEntries \in BOOLEAN : DeleteHabitBegin(id, deleteEntries)
    \/ DeleteHabitEntries
    \/ DeleteHabitHabit
    \/ TxCommit
    \/ TxAbort

SpecDeleteHabit == InitSeeded /\ [][DeleteHabitNext]_vars

\* -------------------------- renumbering categories and habits: SpecReorder
ReorderNext ==
    \/ tx = NoTx /\ \E data \in HabitData({SHUBH_HISAB_ID}) : CreateHabit(data)
    \/ \E orderedIds \in DistinctLists(DOMAIN categories) : ReorderCategoriesBegin(orderedIds)
    \/ \E orderedIds \in DistinctLists(DOMAIN habits) :
            ReorderHabitsBegin(SHUBH_HISAB_ID, orderedIds)
    \/ ReorderUpdate
    \/ TxCommit
    \/ TxAbort

SpecReorder == InitSeeded /\ [][ReorderNext]_vars

\* ------------------------------------------------------------ date keys
\* a string is the sequence of its UTF-16 code units
Digit(n) == 48 + n

Hyphen == 45

\* String(n) for 0 <= n < 10000
RECURSIVE NumberToString(_)
NumberToString(n) == IF n < 10 THEN <<Digit(n)>> ELSE NumberToString(n \div 10) \o <<Digit(n % 10)>>

RECURSIVE padStart(_, _, _)
padStart(s, targetLength, padString) ==
    IF Len(s) >= targetLength THEN s ELSE padStart(padString \o s, targetLength, padString)

\* a key that leaves the month and the day as they are
formatDateKeyUnpadded(date) ==
    NumberToString(date[1]) \o <<Hyphen>> \o NumberToString(date[2])
        \o <<Hyphen>> \o NumberToString(date[3])

\* formatDateKey of the local day <<year, month, day>>
formatDateKey(date) ==
    NumberToString(date[1]) \o <<Hyphen>> \o padStart(NumberToString(date[2]), 2, <<Digit(0)>>)
        \o <<Hyphen>> \o padStart(NumberToString(date[3]), 2, <<Digit(0)>>)

\* the order of IndexedDB string keys: by code unit, a prefix first
StringLess(a, b) ==
    \/ Len(a) < Len(b) /\ \A i \in 1..Len(a) : a[i] = b[i]
    \/ \E i \in 1..Len(a) :
          /\ i <= Len(b)
          /\ a[i] < b[i]
          /\ \A j \in 1..(i - 1) : a[j] = b[j]

\* ---------------------------------------------------- getLogEntriesInRange
\* the days logged in SpecRange
RangeDays == {<<2025, 12, 31>>, <<2026, 1, 5>>, <<2026, 1, 10>>}

RangeHabitIds == {"h1", "h2"}

\* the ranges asked for: one day, two days with a third outside, every day,
\* and a start after the end
RangeQueries ==
    {<<<<2026, 1, 5>>, <<2026, 1, 5>>>>, <<<<2025, 12, 31>>, <<2026, 1, 5>>>>,
     <<<<2026, 1, 5>>, <<2026, 1, 10>>>>, <<<<2025, 12, 31>>, <<2026, 1, 10>>>>,
     <<<<2026, 1, 10>>, <<2025, 12, 31>>>>}

\* the date key of each of those days
DateKeyOf == [day \in RangeDays |-> formatDateKey(day)]

\* a range that leaves its upper bound out
getLogEntriesBelow(startDate, endDate) ==
    {logEntries[e] : e \in {x \in DOMAIN logEntries :
        /\ ~StringLess(logEntries[x].date, startDate)
        /\ StringLess(logEntries[x].date, endDate)}}

\* where('date').between(startDate, endDate, true, true).toArray(); between
\* gives the empty collection when the lower bound is above the upper one
getLogEntriesInRange(startDate, endDate) ==
    IF StringLess(endDate, startDate) THEN {}
    ELSE {logEntries[e] : e \in {x \in DOMAIN logEntries :
            /\ ~StringLess(logEntries[x].date, startDate)
            /\ ~StringLess(endDate, logEntries[x].date)}}

\* a caller reads the entries of a range of days
GetLogEntriesInRange(startDate, endDate) ==
    /\ isOpen
    /\ view' = [op |-> "getLogEntriesInRange", startDate |-> startDate,
                endDate |-> endDate, out |-> getLogEntriesInRange(startDate, endDate)]
    /\ UNCHANGED <<categories, habits, logEntries, settings, storedVersion, isOpen,
                   now, idSeq, ret, dc, tx, app, formData, store,
                   lockScreen, doc, calls>>

\* ------------------------------------ range queries over the logs: SpecRange
RangeNext ==
    \/ \E h \in RangeHabitIds, day \in RangeDays : LogHabit(h, DateKeyOf[day], "true", <<>>)
    \/ \E q \in RangeQueries : GetLogEntriesInRange(DateKeyOf[q[1]], DateKeyOf[q[2]])

SpecRange == InitSeeded /\ [][RangeNext]_vars

\* ------------------------- the upgrade, one request at a time: SpecUpgrade
\* Dexie runs the upgrade function of version(2) inside the versionchange
\* transaction of the open request
UpgradeBegin ==
    /\ ~isOpen
    /\ tx = NoTx
    /\ 0 < storedVersion /\ storedVersion < CURRENT_DB_VERSION
    /\ tx' = [op |-> "open", arg |-> ToString(storedVersion), pc |-> "categories",
              work |-> [categories |-> categories, habits |-> habits]]
    /\ UNCHANGED <<categories, habits, logEntries, settings, storedVersion, isOpen,
                   now, idSeq, ret, dc, app, view, formData, store,
                   lockScreen, doc, calls>>

\* await tx.table('categories').toCollection().modify(...)
UpgradeCategories ==
    /\ tx.op = "open"
    /\ tx.pc = "categories"
    /\ tx' = [tx EXCEPT !.pc = "habits",
                        !.work.categories = [c \in DOMAIN @ |-> upgradeCategory(@[c])]]
    /\ UNCHANGED <<categories, habits, logEntries, settings, storedVersion, isOpen,
                   now, idSeq, ret, dc, app, view, formData, store,
                   lockScreen, doc, calls>>

\* a second step that transforms nothing
UpgradeHabitsSkipped ==
    /\ tx.op = "open"
    /\ tx.pc = "habits"
    /\ tx' = [tx EXCEPT !.pc = "versionchange"]
    /\ UNCHANGED <<categories, habits, logEntries, settings, storedVersion, isOpen,
                   now, idSeq, ret, dc, app, view, formData, store,
                   lockScreen, doc, calls>>

\* await tx.table('habits').toCollection().modify(...)
UpgradeHabits ==
    /\ tx.op = "open"
    /\ tx.pc = "habits"
    /\ tx' = [tx EXCEPT !.pc = "versionchange",
                        !.work.habits = [h \in DOMAIN @ |-> upgradeHabit(@[h])]]
    /\ UNCHANGED <<categories, habits, logEntries, settings, storedVersion, isOpen,
                   now, idSeq, ret, dc, app, view, formData, store,
                   lockScreen, doc, calls>>

\* the versionchange transaction commits: the new version and the
\* transformed records show together, and the open succeeds
UpgradeCommit ==
    /\ tx.op = "open"
    /\ tx.pc = "versionchange"
    /\ categories' = tx.work.categories
    /\ habits' = tx.work.habits
    /\ storedVersion' = CURRENT_DB_VERSION
    /\ isOpen' = TRUE
    /\ ret' = [op |-> "open", arg |-> tx.arg, out |-> "ok"]
    /\ tx' = NoTx
    /\ UNCHANGED <<logEntries, settings, now, idSeq, dc, app, view, formData, store,
                   lockScreen, doc, calls>>

\* a database that a build at schema version 1 left behind
InitVersion1 ==
    /\ InitStored
    /\ storedVersion = 1

UpgradeNext ==
    \/ UpgradeBegin
    \/ UpgradeCategories
    \/ UpgradeHabits
    \/ UpgradeCommit
    \/ TxAbort
    \/ storedVersion = CURRENT_DB_VERSION /\ Open
    \/ Close

SpecUpgrade == InitVersion1 /\ [][UpgradeNext]_vars

\* ------------------------------ importing damaged snapshots: SpecImport
\* the current export with one of the required fields removed
BrokenSnapshots == {Without(exportAllData, {f}) : f \in RequiredFields}

ImportNext ==
    \/ \E data \in HabitData({SHUBH_HISAB_ID}) : CreateHabit(data)
    \/ \E h \in DOMAIN habits, d \in Dates : LogHabit(h, d, "true", <<>>)
    \/ \E data \in BrokenSnapshots \cup {OldSnapshot} : ImportAllData(data)
    \/ Tick

SpecImport == InitSeeded /\ [][ImportNext]_vars

\* ------------------------------------------------ the App component: SpecApp
\* the store when the page loads: a fresh install, or one that was seeded
\* and signed up in an earlier session
InitApp ==
    /\ now = 0
    /\ \/ /\ storedVersion = 0
          /\ categories = EmptyTable
          /\ settings = EmptyTable
       \/ /\ storedVersion = CURRENT_DB_VERSION
          /\ categories = SeededCategories(EmptyTable)
          /\ settings = [hasSeededCategories |-> TRUE, hasSignedUp |-> TRUE]
    /\ habits = EmptyTable
    /\ logEntries = EmptyTable
    /\ isOpen = FALSE
    /\ idSeq = 0
    /\ ret = NoCall
    /\ dc = Idle
    /\ tx = NoTx
    /\ view = NoView
    /\ app \in {[AppMounted EXCEPT !.locked = l] : l \in BOOLEAN}
    /\ formData = NoForm
    /\ store = StoreInitial
    /\ lockScreen = LockScreenMounted
    /\ doc = DocVisible
    /\ calls = NoCalls

\* setIsCheckingAuth(false): the seeding effect depends on isCheckingAuth and
\* runs again
AuthChecked(a) == [a EXCEPT !.isCheckingAuth = FALSE, !.seed[2] = "pending"]

\* const hasSignedUp = await getSetting('hasSignedUp'), read for its truth
hasSignedUp == Has(settings, "hasSignedUp") /\ settings.hasSignedUp

\* checkAuth: the user has not signed up
CheckAuthNeedsSignup ==
    /\ app.isCheckingAuth
    /\ ~hasSignedUp
    /\ app' = [AuthChecked(app) EXCEPT !.needsSignup = TRUE]
    /\ isOpen' = TRUE
    /\ storedVersion' = CURRENT_DB_VERSION
    /\ UNCHANGED <<categories, habits, logEntries, settings, now, idSeq, ret, dc, tx, view, formData, store,
                   lockScreen, doc, calls>>

\* checkAuth: the user has signed up and onAuthStateChange calls back
CheckAuthSignedUp ==
    /\ app.isCheckingAuth
    /\ hasSignedUp
    /\ app' = AuthChecked(app)
    /\ isOpen' = TRUE
    /\ storedVersion' = CURRENT_DB_VERSION
    /\ UNCHANGED <<categories, habits, logEntries, settings, now, idSeq, ret, dc, tx, view, formData, store,
                   lockScreen, doc, calls>>

\* checkAuth: catch (error) { setIsCheckingAuth(false) }
CheckAuthError ==
    /\ app.isCheckingAuth
    /\ app' = AuthChecked(app)
    /\ UNCHANGED <<categories, habits, logEntries, settings, storedVersion, isOpen,
                   now, idSeq, ret, dc, tx, view, formData, store,
                   lockScreen, doc, calls>>

\* the handlers of the run-th run of the seeding effect close over the
\* isCheckingAuth of its render: true in the first run, false in the second
SeedSettled(a, run, outcome) ==
    [a EXCEPT !.seed[run] = outcome,
              !.isInitialized = IF run = 2 THEN TRUE ELSE @]

\* seedDefaultCategories().then(...)
SeedResolve(run) ==
    /\ app.seed[run] = "pending"
    /\ categories' = SeededCategories(categories)
    /\ settings' = SeededSettings(categories, settings)
    /\ isOpen' = TRUE
    /\ storedVersion' = CURRENT_DB_VERSION
    /\ app' = SeedSettled(app, run, "ok")
    /\ UNCHANGED <<habits, logEntries, now, idSeq, ret, dc, tx, view, formData, store,
                   lockScreen, doc, calls>>

\* seedDefaultCategories().catch(...)
SeedReject(run) ==
    /\ app.seed[run] = "pending"
    /\ app' = SeedSettled(app, run, "failed")
    /\ UNCHANGED <<categories, habits, logEntries, settings, storedVersion, isOpen,
                   now, idSeq, ret, dc, tx, view, formData, store,
                   lockScreen, doc, calls>>

\* useEffect: if (!isCheckingAuth && !needsSignup) setIsInitialized(true)
InitializedEffect ==
    /\ ~app.isCheckingAuth
    /\ ~app.needsSignup
    /\ ~app.isInitialized
    /\ app' = [app EXCEPT !.isInitialized = TRUE]
    /\ UNCHANGED <<categories, habits, logEntries, settings, storedVersion, isOpen,
                   now, idSeq, ret, dc, tx, view, formData, store,
                   lockScreen, doc, calls>>

\* SignupScreen: setSetting('hasSignedUp', true), then onSignupComplete()
SignupComplete ==
    /\ app.needsSignup
    /\ isOpen
    /\ settings' = Merge(settings, [hasSignedUp |-> TRUE])
    /\ app' = [app EXCEPT !.needsSignup = FALSE, !.isInitialized = TRUE]
    /\ UNCHANGED <<categories, habits, logEntries, storedVersion, isOpen,
                   now, idSeq, ret, dc, tx, view, formData, store,
                   lockScreen, doc, calls>>

\* LockScreen: unlock()
Unlock ==
    /\ app.locked
    /\ app' = [app EXCEPT !.locked = FALSE]
    /\ UNCHANGED <<categories, habits, logEntries, settings, storedVersion, isOpen,
                   now, idSeq, ret, dc, tx, view, formData, store,
                   lockScreen, doc, calls>>

\* App renders <ActivePage />: not the signup screen, not the loading
\* screen, not the lock screen
PageRendered ==
    /\ ~app.needsSignup
    /\ ~(~app.isInitialized \/ app.isCheckingAuth)
    /\ ~app.locked

AppNext ==
    \/ CheckAuthNeedsSignup
    \/ CheckAuthSignedUp
    \/ CheckAuthError
    \/ \E run \in 1..2 : SeedResolve(run)
    \/ \E run \in 1..2 : SeedReject(run)
    \/ InitializedEffect
    \/ SignupComplete
    \/ Unlock
    \/ Tick

SpecApp == InitApp /\ [][AppNext]_vars

\* ------------------------------------------------- the habit form: SpecForm
\* text the user can type into the name field: '', ' ' and 'J'
NameInputs == {<<>>, <<32>>, <<74>>}

\* String.prototype.trim on a sequence of code units
RECURSIVE trim(_)
trim(s) ==
    IF s = <<>> THEN s
    ELSE IF Head(s) = 32 THEN trim(Tail(s))
    ELSE IF s[Len(s)] = 32 THEN trim(SubSeq(s, 1, Len(s) - 1))
    ELSE s

FormTypes == {"boolean", "rating"}

Intervals == {"daily", "weekly", "monthly"}

defaultOptions == <<"Best", "Good", "Okay", "Poor">>

\* the day buttons the user presses
DayInputs == {3}

\* text the user can type into the date field: '', '0', '15', '32', '-5'
DateInputs == {<<>>, <<48>>, <<49, 53>>, <<51, 50>>, <<45, 53>>}

\* the value of the leading decimal digits of s, and how many there are
RECURSIVE DigitsValue(_, _)
DigitsValue(s, acc) ==
    IF s = <<>> \/ Head(s) < 48 \/ Head(s) > 57 THEN acc
    ELSE DigitsValue(Tail(s), 10 * acc + (Head(s) - 48))

\* parseInt: <<n>> for a number, <<>> for NaN
parseInt(s) ==
    LET neg == s # <<>> /\ Head(s) = Hyphen
        body == IF neg THEN Tail(s) ELSE s
    IN  IF body = <<>> \/ Head(body) < 48 \/ Head(body) > 57 THEN <<>>
        ELSE <<(IF neg THEN -1 ELSE 1) * DigitsValue(body, 0)>>

\* x || []  for an optional array
OrEmpty(x) == IF x = <<>> THEN <<>> ELSE x[1]

\* x || d  for a number x: NaN and 0 are falsy
OrElse(x, d) == IF x = <<>> \/ x = <<0>> THEN d ELSE x[1]

\* the row whose Remove button the user presses: the last one
RemoveIndexes(f) == IF Has(f, "options") THEN {Len(OrEmpty(f.options))} ELSE {}

\* useState<HabitFormData>(...) at mount; habit is <<>> for a new habit and
\* <<id>> when the form edits the stored habit of that id
FormMounted(habit) ==
    LET h == IF habit = <<>> THEN EmptyTable ELSE habits[habit[1]]
    IN  [open |-> TRUE,
         habit |-> habit,
         name |-> IF Has(h, "name") THEN h.name ELSE <<>>,
         categoryId |-> IF Has(h, "categoryId") THEN h.categoryId ELSE SHUBH_HISAB_ID,
         type |-> IF Has(h, "type") THEN h.type ELSE "boolean",
         options |-> IF Get(h, "options") = <<>> THEN <<defaultOptions>> ELSE h.options,
         interval |-> IF Has(h, "interval") THEN h.interval ELSE "daily",
         trackingDay |-> IF Get(h, "trackingDay") = <<>> THEN <<0>> ELSE h.trackingDay,
         trackingDate |-> IF Get(h, "trackingDate") = <<>> THEN <<1>> ELSE h.trackingDate,
         reminderEnabled |-> Has(h, "reminderEnabled") /\ h.reminderEnabled,
         reminderTime |-> IF Get(h, "reminderTime") = <<>> THEN "" ELSE h.reminderTime[1]]

OpenHabitForm(habit) ==
    /\ ~formData.open
    /\ habit # <<>> => habit[1] \in DOMAIN habits
    /\ formData' = FormMounted(habit)
    /\ UNCHANGED <<categories, habits, logEntries, settings, storedVersion, isOpen,
                   now, idSeq, ret, dc, tx, app, view, store, lockScreen, doc, calls>>

\* onCancel: the modal closes and the form unmounts
CancelHabitForm ==
    /\ formData.open
    /\ formData' = NoForm
    /\ UNCHANGED <<categories, habits, logEntries, settings, storedVersion, isOpen,
                   now, idSeq, ret, dc, tx, app, view, store, lockScreen, doc, calls>>

\* setFormData({ ...formData, ...change })
SetFormData(change) ==
    /\ formData.open
    /\ formData' = Merge(formData, change)
    /\ UNCHANGED <<categories, habits, logEntries, settings, storedVersion, isOpen,
                   now, idSeq, ret, dc, tx, app, view, store, lockScreen, doc, calls>>

AddOption ==
    /\ formData.open
    /\ formData.type = "rating"
    /\ Len(OrEmpty(formData.options)) < MaxOptions
    /\ SetFormData([options |-> <<Append(OrEmpty(formData.options), "")>>])

\* the Remove button of a row is rendered only while there are more than
\* two options
RemoveOption(index) ==
    /\ formData.open
    /\ formData.type = "rating"
    /\ formData.options # <<>>
    /\ Len(formData.options[1]) > 2
    /\ index \in 1..Len(formData.options[1])
    /\ SetFormData([options |->
           <<[i \in 1..(Len(formData.options[1]) - 1) |->
                 IF i < index THEN formData.options[1][i]
                 ELSE formData.options[1][i + 1]]>>])

\* onChange of the date field: parseInt(e.target.value) || 1
SetTrackingDate(text) ==
    /\ formData.open
    /\ formData.interval = "monthly"
    /\ SetFormData([trackingDate |-> <<OrElse(parseInt(text), 1)>>])

\* the day buttons are rendered for a weekly habit
SetTrackingDay(day) ==
    /\ formData.open
    /\ formData.interval = "weekly"
    /\ SetFormData([trackingDay |-> <<day>>])

ToggleReminder ==
    /\ formData.open
    /\ SetFormData([reminderEnabled |-> ~formData.reminderEnabled])

\* validate(): the keys of newErrors
validateAcceptsAll(f) == {}

validate(f) ==
    {k \in {"name"} : trim(f.name) = <<>>}
    \cup {k \in {"options"} :
            f.type = "rating" /\ (f.options = <<>> \/ Len(OrEmpty(f.options)) < 2)}
    \cup {k \in {"reminderTime"} : f.reminderEnabled /\ f.reminderTime = ""}
    \cup {k \in {"trackingDate"} :
            f.interval = "monthly"
            /\ (f.trackingDate = <<>> \/ f.trackingDate[1] < 1 \/ f.trackingDate[1] > 31)}

\* handleSubmit: the object passed to createHabit or updateHabit
habitData(f) ==
    [name |-> trim(f.name),
     categoryId |-> f.categoryId,
     type |-> f.type,
     options |-> IF f.type = "rating" THEN f.options ELSE <<>>,
     interval |-> f.interval,
     trackingDay |-> IF f.interval = "weekly" THEN f.trackingDay ELSE <<>>,
     trackingDate |-> IF f.interval = "monthly" THEN f.trackingDate ELSE <<>>,
     reminderEnabled |-> f.reminderEnabled,
     reminderTime |-> IF f.reminderEnabled THEN <<f.reminderTime>> ELSE <<>>]

\* the habits table after createHabit(data)
createHabit(data) ==
    LET actives == ActiveInCategory(habits, data.categoryId)
        order == IF actives = {} THEN 0 ELSE habits[Last(actives)].order + 1
    IN  TableAdd("habits", habits,
            Merge(data, [id |-> generateId, order |-> order,
                         isActive |-> TRUE, createdAt |-> now]))

HandleSubmit ==
    /\ formData.open
    /\ isOpen
    /\ IF validate(formData) # {}
       THEN /\ formData' = formData
            /\ ret' = [op |-> "handleSubmit", arg |-> "none", out |-> "invalid"]
            /\ UNCHANGED <<habits, idSeq>>
       ELSE /\ formData' = NoForm
            /\ IF formData.habit # <<>>
               THEN /\ habits' = TableUpdate("habits", habits, formData.habit[1],
                                             habitData(formData))
                    /\ ret' = [op |-> "handleSubmit", arg |-> formData.habit[1],
                               out |-> "updated"]
                    /\ UNCHANGED idSeq
               ELSE /\ idSeq < MaxIds
                    /\ Cardinality(DOMAIN habits) < MaxHabits
                    /\ habits' = createHabit(habitData(formData))
                    /\ idSeq' = idSeq + 1
                    /\ ret' = [op |-> "handleSubmit", arg |-> generateId,
                               out |-> "created"]
    /\ UNCHANGED <<categories, logEntries, settings, storedVersion, isOpen,
                   now, dc, tx, app, view, store, lockScreen, doc, calls>>

FormNext ==
    \/ \E habit \in {<<>>} \cup {<<id>> : id \in DOMAIN habits} : OpenHabitForm(habit)
    \/ CancelHabitForm
    \/ \E name \in NameInputs : SetFormData([name |-> name])
    \/ \E type \in FormTypes : SetFormData([type |-> type])
    \/ \E interval \in Intervals : SetFormData([interval |-> interval])
    \/ AddOption
    \/ \E index \in RemoveIndexes(formData) : RemoveOption(index)
    \/ \E day \in DayInputs : SetTrackingDay(day)
    \/ \E text \in DateInputs : SetTrackingDate(text)
    \/ ToggleReminder
    \/ HandleSubmit

\* the seeded store of a session that has one more id to hand out, so that
\* the form creates one habit and then edits it
InitForm ==
    /\ now = 0
    /\ categories = SeededCategories(EmptyTable)
    /\ settings = SeededSettings(EmptyTable, EmptyTable)
    /\ habits = EmptyTable
    /\ logEntries = EmptyTable
    /\ storedVersion = CURRENT_DB_VERSION
    /\ isOpen = TRUE
    /\ idSeq = MaxIds - 1
    /\ ret = NoCall
    /\ dc = Idle
    /\ tx = NoTx
    /\ app = AppReady
    /\ view = NoView
    /\ formData = NoForm
    /\ store = StoreInitial
    /\ lockScreen = LockScreenMounted
    /\ doc = DocVisible
    /\ calls = NoCalls

SpecForm == InitForm /\ [][FormNext]_vars

\* ------------------------------------------- the settings helpers: SpecSettings
\* the JavaScript value null
Null == "null"

\* types/index.ts: the default of every key of AppSettings
DEFAULT_SETTINGS ==
    [pinHash |-> <<Null>>, pinEnabled |-> <<FALSE>>, autoLockTimeout |-> <<5>>,
     theme |-> <<"system">>, startOfWeek |-> <<0>>,
     googleBackupEnabled |-> <<FALSE>>, lastBackupAt |-> <<Null>>,
     autoBackupEnabled |-> <<FALSE>>, firebaseUserId |-> <<Null>>,
     hasSignedUp |-> <<FALSE>>, hasCompletedOnboarding |-> <<FALSE>>,
     hasSeededCategories |-> <<FALSE>>, appVersion |-> <<"1.0.0">>]

\* db/index.ts: the defaults that getSetting falls back to
DEFAULT_SETTINGS_VALUES ==
    [pinHash |-> <<Null>>, pinEnabled |-> <<FALSE>>, autoLockTimeout |-> <<5>>,
     theme |-> <<"system">>, startOfWeek |-> <<0>>,
     googleBackupEnabled |-> <<FALSE>>, lastBackupAt |-> <<Null>>,
     autoBackupEnabled |-> <<FALSE>>, hasCompletedOnboarding |-> <<FALSE>>,
     hasSeededCategories |-> <<FALSE>>, appVersion |-> <<"1.0.0">>]

\* keyof AppSettings
SettingKeys == DOMAIN DEFAULT_SETTINGS

\* the calls setSetting(key, value) that are made
SettingWrites ==
    {<<"hasSignedUp", TRUE>>, <<"hasSignedUp", FALSE>>,
     <<"firebaseUserId", "uid-1">>, <<"firebaseUserId", Null>>,
     <<"theme", "dark">>, <<"theme", "system">>,
     <<"pinEnabled", TRUE>>}

\* what getSetting(key) resolves to: <<value>>, or <<>> for undefined
getSetting(key) ==
    IF key \notin DOMAIN settings THEN Get(DEFAULT_SETTINGS_VALUES, key)
    ELSE <<settings[key]>>

GetSetting(key) ==
    /\ isOpen
    /\ view' = [op |-> "getSetting", key |-> key, value |-> getSetting(key)]
    /\ UNCHANGED <<categories, habits, logEntries, settings, storedVersion, isOpen,
                   now, idSeq, ret, dc, tx, app, formData, store, lockScreen,
                   doc, calls>>

\* db.settings.put({ key, value })
SetSetting(key, value) ==
    /\ isOpen
    /\ settings' = [k \in DOMAIN settings \cup {key} |->
                       IF k = key THEN value ELSE settings[k]]
    /\ ret' = [op |-> "setSetting", arg |-> key, out |-> "ok"]
    /\ UNCHANGED <<categories, habits, logEntries, storedVersion, isOpen,
                   now, idSeq, dc, tx, app, view, formData, store, lockScreen,
                   doc, calls>>

SettingsNext ==
    \/ \E key \in SettingKeys : GetSetting(key)
    \/ \E w \in SettingWrites : SetSetting(w[1], w[2])

SpecSettings == InitSeeded /\ [][SettingsNext]_vars

\* ------------------------------- checkAuth, one await at a time: SpecAuth
\* the users Firebase can report
Users == {"uid-1"}

\* what a Firebase call that reports a user or null can yield: null when
\* Firebase is not initialised (auth is null)
UserOrNull(firebase) == IF firebase THEN {<<>>} \cup {<<u>> : u \in Users} ELSE {<<>>}

\* how the promise of createUserProfile settles: it throws when db is null,
\* and getDoc or setDoc may reject
createUserProfile(firebase) ==
    IF ~firebase THEN {"rejected"} ELSE {"resolved", "rejected"}

\* how the promise of updateLastActive settles: it returns when db is null,
\* and setDoc may reject
updateLastActive(firebase) ==
    IF ~firebase THEN {"resolved"} ELSE {"resolved", "rejected"}

\* how the promise of logAnalyticsEvent settles: it returns when db is null
\* and catches what addDoc throws
logAnalyticsEvent(firebase) == {"resolved"}

\* the checkAuth call of the mount effect is at the await named pc
AtAwait(pc) ==
    /\ calls # NoCalls
    /\ calls[1].op = "checkAuth"
    /\ calls[1].pc = pc

\* the call moves on to the await named pc
Goto(pc) == [calls EXCEPT ![1].pc = pc]

\* const redirectUser = await handleRedirectResult()
HandleRedirectResult ==
    /\ AtAwait("handleRedirectResult")
    /\ \E user \in UserOrNull(calls[1].firebase) :
          calls' = [calls EXCEPT ![1].redirectUser = user,
                                 ![1].pc = IF user # <<>> THEN "createUserProfile"
                                           ELSE "getSetting"]
    /\ UNCHANGED <<categories, habits, logEntries, settings, storedVersion, isOpen,
                   now, idSeq, ret, dc, tx, app, view, formData, store, lockScreen,
                   doc>>

\* await createUserProfile(redirectUser, ...): a rejection lands in the catch
\* of checkAuth, which calls setIsCheckingAuth(false)
RedirectCreateUserProfile ==
    /\ AtAwait("createUserProfile")
    /\ \E outcome \in createUserProfile(calls[1].firebase) :
          /\ ret' = [op |-> "createUserProfile", arg |-> calls[1].redirectUser[1],
                     out |-> outcome]
          /\ IF outcome = "resolved"
             THEN calls' = Goto("setSetting firebaseUserId") /\ app' = app
             ELSE calls' = Goto("done") /\ app' = AuthChecked(app)
    /\ UNCHANGED <<categories, habits, logEntries, settings, storedVersion, isOpen,
                   now, idSeq, dc, tx, view, formData, store, lockScreen, doc>>

\* await setSetting('firebaseUserId', redirectUser.uid)
RedirectSetFirebaseUserId ==
    /\ AtAwait("setSetting firebaseUserId")
    /\ settings' = Merge(settings, [firebaseUserId |-> calls[1].redirectUser[1]])
    /\ isOpen' = TRUE
    /\ storedVersion' = CURRENT_DB_VERSION
    /\ calls' = Goto("setSetting hasSignedUp")
    /\ UNCHANGED <<categories, habits, logEntries, now, idSeq, ret, dc, tx, app, view,
                   formData, store, lockScreen, doc>>

\* await setSetting('hasSignedUp', true)
RedirectSetHasSignedUp ==
    /\ AtAwait("setSetting hasSignedUp")
    /\ settings' = Merge(settings, [hasSignedUp |-> TRUE])
    /\ calls' = Goto("logAnalyticsEvent")
    /\ UNCHANGED <<categories, habits, logEntries, storedVersion, isOpen,
                   now, idSeq, ret, dc, tx, app, view, formData, store, lockScreen,
                   doc>>

\* await logAnalyticsEvent(redirectUser.uid, 'user_signed_up', ...)
RedirectLogAnalyticsEvent ==
    /\ AtAwait("logAnalyticsEvent")
    /\ \E outcome \in logAnalyticsEvent(calls[1].firebase) :
          ret' = [op |-> "logAnalyticsEvent", arg |-> "user_signed_up", out |-> outcome]
    /\ calls' = Goto("getSetting")
    /\ UNCHANGED <<categories, habits, logEntries, settings, storedVersion, isOpen,
                   now, idSeq, dc, tx, app, view, formData, store, lockScreen, doc>>

\* const hasSignedUp = await getSetting('hasSignedUp'), and the branch on it
CheckLocalSetting ==
    /\ AtAwait("getSetting")
    /\ isOpen' = TRUE
    /\ storedVersion' = CURRENT_DB_VERSION
    /\ IF getSetting("hasSignedUp") \in {<<>>, <<FALSE>>} /\ calls[1].redirectUser = <<>>
       THEN /\ app' = [AuthChecked(app) EXCEPT !.needsSignup = TRUE]
            /\ calls' = Goto("done")
       ELSE /\ app' = app
            /\ calls' = Goto("onAuthStateChange")
    /\ UNCHANGED <<categories, habits, logEntries, settings, now, idSeq, ret, dc, tx,
                   view, formData, store, lockScreen, doc>>

\* onAuthStateChange(async (user) => ...): the callback is called with the
\* signed-in user or with null, and checkAuth itself returns
SubscribeAuthState ==
    /\ AtAwait("onAuthStateChange")
    /\ \E user \in UserOrNull(calls[1].firebase) :
          calls' = [calls EXCEPT ![1].user = user,
                                 ![1].pc = IF user # <<>>
                                           THEN "callback createUserProfile"
                                           ELSE "callback getSetting"]
    /\ UNCHANGED <<categories, habits, logEntries, settings, storedVersion, isOpen,
                   now, idSeq, ret, dc, tx, app, view, formData, store, lockScreen,
                   doc>>

\* callback: await createUserProfile(user, ...); nothing catches a rejection,
\* the promise of the callback rejects
CallbackCreateUserProfile ==
    /\ AtAwait("callback createUserProfile")
    /\ \E outcome \in createUserProfile(calls[1].firebase) :
          /\ ret' = [op |-> "createUserProfile", arg |-> calls[1].user[1],
                     out |-> outcome]
          /\ calls' = Goto(IF outcome = "resolved" THEN "callback updateLastActive"
                           ELSE "callback rejected")
    /\ UNCHANGED <<categories, habits, logEntries, settings, storedVersion, isOpen,
                   now, idSeq, dc, tx, app, view, formData, store, lockScreen, doc>>

\* callback: await updateLastActive(user.uid)
CallbackUpdateLastActive ==
    /\ AtAwait("callback updateLastActive")
    /\ \E outcome \in updateLastActive(calls[1].firebase) :
          /\ ret' = [op |-> "updateLastActive", arg |-> calls[1].user[1],
                     out |-> outcome]
          /\ calls' = Goto(IF outcome = "resolved" THEN "callback logAnalyticsEvent"
                           ELSE "callback rejected")
    /\ UNCHANGED <<categories, habits, logEntries, settings, storedVersion, isOpen,
                   now, idSeq, dc, tx, app, view, formData, store, lockScreen, doc>>

\* callback: await logAnalyticsEvent(user.uid, 'app_opened', ...)
CallbackLogAnalyticsEvent ==
    /\ AtAwait("callback logAnalyticsEvent")
    /\ \E outcome \in logAnalyticsEvent(calls[1].firebase) :
          ret' = [op |-> "logAnalyticsEvent", arg |-> "app_opened", out |-> outcome]
    /\ calls' = Goto("callback setIsCheckingAuth")
    /\ UNCHANGED <<categories, habits, logEntries, settings, storedVersion, isOpen,
                   now, idSeq, dc, tx, app, view, formData, store, lockScreen, doc>>

\* callback, user is null: await getSetting('firebaseUserId')
CallbackSignedOut ==
    /\ AtAwait("callback getSetting")
    /\ calls' = Goto("callback setIsCheckingAuth")
    /\ UNCHANGED <<categories, habits, logEntries, settings, storedVersion, isOpen,
                   now, idSeq, ret, dc, tx, app, view, formData, store, lockScreen,
                   doc>>

\* callback: setIsCheckingAuth(false)
CallbackAuthChecked ==
    /\ AtAwait("callback setIsCheckingAuth")
    /\ app' = AuthChecked(app)
    /\ calls' = Goto("done")
    /\ UNCHANGED <<categories, habits, logEntries, settings, storedVersion, isOpen,
                   now, idSeq, ret, dc, tx, view, formData, store, lockScreen, doc>>

\* the page loads: the store of InitApp, Firebase configured or not, and
\* checkAuth at its first await
InitAuth ==
    /\ now = 0
    /\ \/ /\ storedVersion = 0
          /\ categories = EmptyTable
          /\ settings = EmptyTable
       \/ /\ storedVersion = CURRENT_DB_VERSION
          /\ categories = SeededCategories(EmptyTable)
          /\ settings = [hasSeededCategories |-> TRUE, hasSignedUp |-> TRUE]
    /\ habits = EmptyTable
    /\ logEntries = EmptyTable
    /\ isOpen = FALSE
    /\ idSeq = 0
    /\ ret = NoCall
    /\ dc = Idle
    /\ tx = NoTx
    /\ view = NoView
    /\ app = AppMounted
    /\ formData = NoForm
    /\ store = StoreInitial
    /\ lockScreen = LockScreenMounted
    /\ doc = DocVisible
    /\ \E firebase \in BOOLEAN :
          calls = <<[op |-> "checkAuth", pc |-> "handleRedirectResult",
                     firebase |-> firebase, redirectUser |-> <<>>, user |-> <<>>]>>

\* the steps of checkAuth and of the callback it subscribes
CheckAuth ==
    \/ HandleRedirectResult
    \/ RedirectCreateUserProfile
    \/ RedirectSetFirebaseUserId
    \/ RedirectSetHasSignedUp
    \/ RedirectLogAnalyticsEvent
    \/ CheckLocalSetting
    \/ SubscribeAuthState
    \/ CallbackCreateUserProfile
    \/ CallbackUpdateLastActive
    \/ CallbackLogAnalyticsEvent
    \/ CallbackSignedOut
    \/ CallbackAuthChecked

AuthNext ==
    \/ CheckAuth
    \/ \E run \in 1..2 : SeedResolve(run)
    \/ \E run \in 1..2 : SeedReject(run)
    \/ InitializedEffect

\* every promise that checkAuth awaits settles
SpecAuth == InitAuth /\ [][AuthNext]_vars /\ WF_vars(CheckAuth)

\* ------------------------------------------- the lock screen: SpecLockScreen
\* the clock counts seconds; Elapse lets a quarter of a minute pass
ElapseSeconds == 15

\* the lockout of the lock screen and the delay of the auto-lock: 30000 ms
LOCK_SECONDS == 30

\* the PIN the user chose, and the digits typed into the boxes of PinInput:
\* the first three always right, the fourth right or wrong
StoredPin == <<1, 1, 1, 1>>

DigitsAt(index) == IF index < 4 THEN {1} ELSE {1, 2}

\* hashPin: the SHA-256 digest of pin + 'adhyatmik-salt-2026', one digest per
\* pin
hashPin(pin) == <<"SHA-256", pin, "adhyatmik-salt-2026">>

verifyPin(pin, storedHash) == hashPin(pin) = storedHash

\* partialize: the fields of the store that persist writes to localStorage
partialize(state) == [pinHash |-> state.pinHash, pinEnabled |-> state.pinEnabled]

\* App renders <LockScreen />
LockScreenShown ==
    /\ ~app.needsSignup
    /\ ~(~app.isInitialized \/ app.isCheckingAuth)
    /\ store.pinEnabled /\ store.isLocked

\* a render of LockScreen: isLockedOut = lockoutUntil && Date.now() < lockoutUntil
Render(ls) ==
    [ls EXCEPT !.isLockedOut = ls.lockoutUntil # <<>> /\ now < ls.lockoutUntil[1]]

\* set(partial) of the store: persist writes the partialized state, and App
\* reads pinEnabled and isLocked through its selectors
StoreSet(state) ==
    /\ store' = state
    /\ doc' = [doc EXCEPT !.localStorage = <<partialize(state)>>]
    /\ app' = [app EXCEPT !.locked = state.pinEnabled /\ state.isLocked]

Elapse ==
    /\ now < MaxSeconds
    /\ lockScreen.verifying = <<>>
    /\ now' = now + ElapseSeconds
    /\ UNCHANGED <<categories, habits, logEntries, settings, storedVersion, isOpen,
                   idSeq, ret, dc, tx, app, view, formData, store, lockScreen,
                   doc, calls>>

\* PinInput.handleChange(index, digit) on the first empty box; the verify
\* effect runs with the new pin and starts verifyPinAsync when it is complete
TypeDigit(digit) ==
    /\ LockScreenShown
    /\ ~lockScreen.isLockedOut
    /\ Len(lockScreen.pin) < 4
    /\ digit \in DigitsAt(Len(lockScreen.pin) + 1)
    /\ LET pin == Append(lockScreen.pin, digit)
       IN  IF Len(pin) = 4 /\ store.pinHash # <<>>
           THEN /\ Len(lockScreen.verifying) < MaxInFlight
                /\ lockScreen' = Render([lockScreen EXCEPT
                       !.pin = pin,
                       !.verifying = Append(@, [pin |-> pin,
                                                attempts |-> lockScreen.attempts])])
           ELSE lockScreen' = Render([lockScreen EXCEPT !.pin = pin])
    /\ UNCHANGED <<categories, habits, logEntries, settings, storedVersion, isOpen,
                   now, idSeq, ret, dc, tx, app, view, formData, store, doc, calls>>

\* PinInput.handleChange(index, '') on the last filled box
Backspace ==
    /\ LockScreenShown
    /\ ~lockScreen.isLockedOut
    /\ lockScreen.pin # <<>>
    /\ lockScreen' = Render([lockScreen EXCEPT
           !.pin = SubSeq(@, 1, Len(@) - 1)])
    /\ UNCHANGED <<categories, habits, logEntries, settings, storedVersion, isOpen,
                   now, idSeq, ret, dc, tx, app, view, formData, store, doc, calls>>

\* the sequence without its i-th element
RemoveAt(s, i) == SubSeq(s, 1, i - 1) \o SubSeq(s, i + 1, Len(s))

\* verifyPinAsync after await verifyPin(pin, pinHash), for the i-th run in
\* flight.  A correct pin unlocks, which unmounts the lock screen (the runs
\* still in flight then update an unmounted component).  An incorrect pin
\* sets error, clears the pin, counts the attempt and, when the attempts its
\* effect closed over are 2 or more, starts the lockout, whose effect
\* schedules the timeout.
lockoutAfter(attempts) == attempts >= 2

VerifyPinSettles(i) ==
    /\ i \in 1..Len(lockScreen.verifying)
    /\ LET run == lockScreen.verifying[i]
       IN  IF verifyPin(run.pin, store.pinHash[1])
           THEN /\ StoreSet([store EXCEPT !.isLocked = FALSE])
                /\ lockScreen' = LockScreenMounted
                /\ ret' = [op |-> "verifyPin", arg |-> "correct", out |-> "unlock"]
           ELSE /\ lockScreen' = Render([lockScreen EXCEPT
                       !.error = TRUE,
                       !.pin = <<>>,
                       !.attempts = @ + 1,
                       !.failed = @ + 1,
                       !.verifying = RemoveAt(@, i),
                       !.lockoutUntil = IF lockoutAfter(run.attempts)
                                        THEN <<now + LOCK_SECONDS>> ELSE @,
                       !.timer = IF lockoutAfter(run.attempts)
                                 THEN <<now + LOCK_SECONDS>> ELSE @])
                /\ ret' = [op |-> "verifyPin", arg |-> "incorrect",
                           out |-> IF lockoutAfter(run.attempts) THEN "lockout"
                                   ELSE "error"]
                /\ UNCHANGED <<store, doc, app>>
    /\ UNCHANGED <<categories, habits, logEntries, settings, storedVersion, isOpen,
                   now, idSeq, dc, tx, view, formData, calls>>

\* the timeout of the lockout effect: setLockoutUntil(null); setAttempts(0)
LockoutExpires ==
    /\ lockScreen.timer # <<>>
    /\ now >= lockScreen.timer[1]
    /\ lockScreen' = Render([lockScreen EXCEPT
           !.lockoutUntil = <<>>, !.attempts = 0, !.timer = <<>>, !.failed = 0])
    /\ UNCHANGED <<categories, habits, logEntries, settings, storedVersion, isOpen,
                   now, idSeq, ret, dc, tx, app, view, formData, store, doc, calls>>

\* the store of a user who enabled the PIN, and the app locked
StoreLocked ==
    [isLocked |-> TRUE, pinHash |-> <<hashPin(StoredPin)>>, pinEnabled |-> TRUE]

InitLockScreen ==
    /\ now = 0
    /\ categories = SeededCategories(EmptyTable)
    /\ settings = [hasSeededCategories |-> TRUE, hasSignedUp |-> TRUE]
    /\ habits = EmptyTable
    /\ logEntries = EmptyTable
    /\ storedVersion = CURRENT_DB_VERSION
    /\ isOpen = TRUE
    /\ idSeq = 0
    /\ ret = NoCall
    /\ dc = Idle
    /\ tx = NoTx
    /\ app = [AppReady EXCEPT !.locked = TRUE]
    /\ view = NoView
    /\ formData = NoForm
    /\ store = StoreLocked
    /\ lockScreen = LockScreenMounted
    /\ doc = [DocVisible EXCEPT !.localStorage = <<partialize(StoreLocked)>>]
    /\ calls = NoCalls

LockScreenNext ==
    \/ \E digit \in 1..2 : TypeDigit(digit)
    \/ Backspace
    \/ \E i \in 1..MaxInFlight : VerifyPinSettles(i)
    \/ LockoutExpires
    \/ Elapse

SpecLockScreen == InitLockScreen /\ [][LockScreenNext]_vars

\* --------------------------------- the PIN across page loads: SpecPin
\* the pins typed into the sheets of the settings page
PinInputs == {StoredPin, <<1, 1, 1, 2>>}

\* SettingsPage.handleSetupPin, confirm step: setPin(await hashPin(pinValue))
SetupPin(pin) ==
    /\ PageRendered
    /\ ~store.pinEnabled
    /\ StoreSet([isLocked |-> TRUE, pinHash |-> <<hashPin(pin)>>, pinEnabled |-> TRUE])
    /\ ret' = [op |-> "setPin", arg |-> "none", out |-> "ok"]
    /\ UNCHANGED <<categories, habits, logEntries, settings, storedVersion, isOpen,
                   now, idSeq, dc, tx, view, formData, lockScreen, calls>>

\* SettingsPage.handleRemovePin: removePin() when verifyPin accepts the pin
RemovePin(pin) ==
    /\ PageRendered
    /\ store.pinEnabled
    /\ store.pinHash # <<>>
    /\ IF verifyPin(pin, store.pinHash[1])
       THEN /\ StoreSet([isLocked |-> FALSE, pinHash |-> <<>>, pinEnabled |-> FALSE])
            /\ ret' = [op |-> "removePin", arg |-> "none", out |-> "ok"]
       ELSE /\ ret' = [op |-> "removePin", arg |-> "none", out |-> "error"]
            /\ UNCHANGED <<store, doc, app>>
    /\ UNCHANGED <<categories, habits, logEntries, settings, storedVersion, isOpen,
                   now, idSeq, dc, tx, view, formData, lockScreen, calls>>

\* the state of the store after the page loads: the initial state of
\* create(), with the item that persist wrote to localStorage merged over it
Rehydrated(localStorage) ==
    IF localStorage = <<>> THEN StoreInitial ELSE Merge(StoreInitial, localStorage[1])

\* the page is loaded again: the module state is built anew and App mounts
Reload ==
    /\ store' = Rehydrated(doc.localStorage)
    /\ app' = [AppMounted EXCEPT
                  !.locked = store'.pinEnabled /\ store'.isLocked]
    /\ lockScreen' = LockScreenMounted
    /\ doc' = [doc EXCEPT !.visibilityState = "visible", !.timers = {},
                          !.hiddenSince = <<>>]
    /\ isOpen' = FALSE
    /\ ret' = [op |-> "reload", arg |-> "none", out |-> "ok"]
    /\ UNCHANGED <<categories, habits, logEntries, settings, storedVersion,
                   now, idSeq, dc, tx, view, formData, calls>>

\* a signed-up user without a PIN, the app open on a page
InitPin ==
    /\ now = 0
    /\ categories = SeededCategories(EmptyTable)
    /\ settings = [hasSeededCategories |-> TRUE, hasSignedUp |-> TRUE]
    /\ habits = EmptyTable
    /\ logEntries = EmptyTable
    /\ storedVersion = CURRENT_DB_VERSION
    /\ isOpen = TRUE
    /\ idSeq = 0
    /\ ret = NoCall
    /\ dc = Idle
    /\ tx = NoTx
    /\ app = AppReady
    /\ view = NoView
    /\ formData = NoForm
    /\ store = StoreInitial
    /\ lockScreen = LockScreenMounted
    /\ doc = DocVisible
    /\ calls = NoCalls

PinNext ==
    \/ \E pin \in {StoredPin} : SetupPin(pin)
    \/ \E pin \in PinInputs : RemovePin(pin)
    \/ Reload
    \/ CheckAuthSignedUp
    \/ \E run \in 1..2 : SeedResolve(run)
    \/ InitializedEffect
    \/ \E digit \in 1..2 : TypeDigit(digit)
    \/ \E i \in 1..MaxInFlight : VerifyPinSettles(i)

SpecPin == InitPin /\ [][PinNext]_vars

\* ------------------------------------------- the auto-lock: SpecAutoLock
\* visibilitychange to hidden: with the PIN enabled and the app unlocked the
\* listener schedules a timeout of 30 seconds
Hide ==
    /\ doc.visibilityState = "visible"
    /\ doc' = [doc EXCEPT
           !.visibilityState = "hidden",
           !.hiddenSince = <<now>>,
           !.timers = IF store.pinEnabled /\ ~store.isLocked
                      THEN @ \cup {now + LOCK_SECONDS} ELSE @]
    /\ UNCHANGED <<categories, habits, logEntries, settings, storedVersion, isOpen,
                   now, idSeq, ret, dc, tx, app, view, formData, store, lockScreen,
                   calls>>

\* visibilitychange to visible: the listener does nothing
Show ==
    /\ doc.visibilityState = "hidden"
    /\ doc' = [doc EXCEPT !.visibilityState = "visible", !.hiddenSince = <<>>]
    /\ UNCHANGED <<categories, habits, logEntries, settings, storedVersion, isOpen,
                   now, idSeq, ret, dc, tx, app, view, formData, store, lockScreen,
                   calls>>

\* lock(): set({ isLocked: true }) when the PIN is enabled
lock(state) == IF state.pinEnabled THEN [state EXCEPT !.isLocked = TRUE] ELSE state

\* the timeout that was due at that time runs: lock() if the document is
\* hidden now
AutoLockTimeout(due) ==
    /\ due \in doc.timers
    /\ now >= due
    /\ store' = IF doc.visibilityState = "hidden" THEN lock(store) ELSE store
    /\ doc' = [doc EXCEPT !.timers = @ \ {due},
                          !.localStorage = <<partialize(store')>>]
    /\ app' = [app EXCEPT !.locked = store'.pinEnabled /\ store'.isLocked]
    /\ ret' = [op |-> "autoLock", arg |-> ToString(due),
               out |-> IF store'.isLocked THEN "locked" ELSE "visible"]
    /\ UNCHANGED <<categories, habits, logEntries, settings, storedVersion, isOpen,
                   now, idSeq, dc, tx, view, formData, lockScreen, calls>>

\* the store of a user who enabled the PIN and has unlocked the app
StoreUnlocked ==
    [isLocked |-> FALSE, pinHash |-> <<hashPin(StoredPin)>>, pinEnabled |-> TRUE]

InitAutoLock ==
    /\ now = 0
    /\ categories = SeededCategories(EmptyTable)
    /\ settings = [hasSeededCategories |-> TRUE, hasSignedUp |-> TRUE]
    /\ habits = EmptyTable
    /\ logEntries = EmptyTable
    /\ storedVersion = CURRENT_DB_VERSION
    /\ isOpen = TRUE
    /\ idSeq = 0
    /\ ret = NoCall
    /\ dc = Idle
    /\ tx = NoTx
    /\ app = AppReady
    /\ view = NoView
    /\ formData = NoForm
    /\ store = StoreUnlocked
    /\ lockScreen = LockScreenMounted
    /\ doc = [DocVisible EXCEPT !.localStorage = <<partialize(StoreUnlocked)>>]
    /\ calls = NoCalls

AutoLockNext ==
    \/ Hide
    \/ Show
    \/ \E due \in doc.timers : AutoLockTimeout(due)
    \/ Elapse
    \/ \E digit \in 1..2 : TypeDigit(digit)
    \/ \E i \in 1..MaxInFlight : VerifyPinSettles(i)

SpecAutoLock == InitAutoLock /\ [][AutoLockNext]_vars

\* ------------------------------------------------ sheet rows: SpecSheet
\* JavaScript values of the record fields, by type: bool, num, str (code
\* units) and items (the strings of an array) hold the value of that type;
\* a Date holds its UTC day in num as year * 10000 + month * 100 + day
JsValue(type, bool, num, str, items) ==
    [type |-> type, bool |-> bool, num |-> num, str |-> str, items |-> items]

Undefined == JsValue("undefined", FALSE, 0, <<>>, <<>>)

JsNull == JsValue("null", FALSE, 0, <<>>, <<>>)

Bool(b) == JsValue("boolean", b, 0, <<>>, <<>>)

Num(n) == JsValue("number", FALSE, n, <<>>, <<>>)

Str(s) == JsValue("string", FALSE, 0, s, <<>>)

Arr(items) == JsValue("array", FALSE, 0, <<>>, items)

DateValue(day) == JsValue("Date", FALSE, day, <<>>, <<>>)

CURRENT_SHEET_SCHEMA_VERSION == 1

SheetTables == {"categories", "habits", "logEntries"}

\* SHEET_SCHEMA_VERSIONS[version][tableName] || []
SHEET_SCHEMA_VERSIONS(version, tableName) ==
    IF version # 1 THEN <<>>
    ELSE CASE tableName = "categories" ->
                <<"id", "name", "nameHindi", "color", "icon", "order", "isFixed",
                  "hisabType", "createdAt">>
           [] tableName = "habits" ->
                <<"id", "name", "description", "image", "categoryId", "type",
                  "options", "unit", "target", "interval", "trackingDay",
                  "trackingDate", "reminderEnabled", "reminderTime", "order",
                  "isActive", "createdAt">>
           [] tableName = "logEntries" ->
                <<"id", "habitId", "date", "value", "note", "skippedReason",
                  "createdAt", "updatedAt">>
           [] OTHER -> <<"key", "value">>

\* the code units of 'shubh' and 'daily'
ShubhText == <<115, 104, 117, 98, 104>>

DailyText == <<100, 97, 105, 108, 121>>

\* getDefaultValuesForVersion(version)[tableName] || {}
getDefaultValuesForVersion(version, tableName) ==
    IF version # 1 THEN EmptyTable
    ELSE CASE tableName = "categories" ->
                [nameHindi |-> Str(<<>>), isFixed |-> Bool(FALSE),
                 hisabType |-> Str(ShubhText)]
           [] tableName = "habits" ->
                [description |-> Str(<<>>), image |-> Str(<<>>), options |-> JsNull,
                 unit |-> Str(<<>>), target |-> JsNull, interval |-> Str(DailyText),
                 trackingDay |-> JsNull, trackingDate |-> JsNull,
                 reminderEnabled |-> Bool(FALSE), reminderTime |-> JsNull]
           [] tableName = "logEntries" ->
                [note |-> Str(<<>>), skippedReason |-> Str(<<>>)]
           [] OTHER -> EmptyTable

\* a ?? b
Coalesce(a, b) == IF a.type \in {"null", "undefined"} THEN b ELSE a

\* obj[col]
Prop(obj, col) == IF col \in DOMAIN obj THEN obj[col] ELSE Undefined

\* the strings joined by commas, each between double quotes (none of the
\* strings has a character that JSON escapes)
RECURSIVE JoinQuoted(_)
JoinQuoted(items) ==
    IF items = <<>> THEN <<>>
    ELSE <<34>> \o Head(items) \o <<34>>
           \o (IF Tail(items) = <<>> THEN <<>> ELSE <<44>> \o JoinQuoted(Tail(items)))

\* JSON.stringify of an array of strings
JSONstringify(items) == <<91>> \o JoinQuoted(items) \o <<93>>

\* Date.prototype.toISOString of midnight UTC of the day
toISOString(day) ==
    NumberToString(day \div 10000) \o <<Hyphen>>
        \o padStart(NumberToString((day \div 100) % 100), 2, <<Digit(0)>>) \o <<Hyphen>>
        \o padStart(NumberToString(day % 100), 2, <<Digit(0)>>)
        \o <<84, 48, 48, 58, 48, 48, 58, 48, 48, 46, 48, 48, 48, 90>>

mapObjectToRow(obj, columns) ==
    [i \in 1..Len(columns) |->
        LET value == Prop(obj, columns[i])
        IN  IF value.type \in {"null", "undefined"} THEN Str(<<>>)
            ELSE IF value.type = "array" THEN Str(JSONstringify(value.items))
            ELSE IF value.type = "Date" THEN Str(toISOString(value.num))
            ELSE value]

mapRowToObject(row, columns, version, tableName) ==
    LET defaults == getDefaultValuesForVersion(version, tableName)
    IN  [col \in {columns[i] : i \in 1..Len(columns)} |->
            LET index == CHOOSE i \in 1..Len(columns) : columns[i] = col
                value == IF index <= Len(row) THEN row[index] ELSE Undefined
            IN  IF value.type \notin {"null", "undefined"} /\ value # Str(<<>>)
                THEN value
                ELSE Coalesce(Prop(defaults, col), JsNull)]

\* the created day of the records
CreatedDay == 20260105

\* habits as createHabit stores them: a boolean habit without options or a
\* rating habit with two options, with or without a description and a target
SheetHabits ==
    { [id |-> Str(<<49>>), name |-> Str(<<74>>), categoryId |-> Str(<<49>>),
       type |-> Str(<<114>>), interval |-> Str(DailyText),
       reminderEnabled |-> Bool(FALSE), createdAt |-> DateValue(CreatedDay),
       options |-> options, description |-> description, target |-> target,
       isActive |-> Bool(isActive), order |-> Num(order)] :
        options \in {Undefined, Arr(<<<<65>>, <<66>>>>)},
        description \in {Undefined, Str(<<>>), Str(<<74>>)},
        target \in {Undefined, Num(0), Num(5)},
        isActive \in BOOLEAN, order \in 0..MaxClock }

\* log entries as logHabit and skipHabit store them
SheetLogEntries ==
    { [id |-> Str(<<49>>), habitId |-> Str(<<49>>),
       date |-> Str(formatDateKey(<<2026, 1, 5>>)),
       createdAt |-> DateValue(CreatedDay), updatedAt |-> DateValue(CreatedDay),
       value |-> value, note |-> note, skippedReason |-> skippedReason] :
        value \in {Bool(TRUE), Bool(FALSE), Num(0), Num(3), Str(<<>>), Str(<<65>>)},
        note \in {Undefined, Str(<<>>), Str(<<74>>)},
        skippedReason \in {Undefined, Str(<<74>>)} }

SheetObjects(tableName) ==
    IF tableName = "habits" THEN SheetHabits
    ELSE IF tableName = "logEntries" THEN SheetLogEntries
    ELSE {}

\* a record is written as a row with the column list of its table
MapObjectToRow(tableName, obj) ==
    /\ view' = [op |-> "mapObjectToRow", tableName |-> tableName, obj |-> obj,
                row |-> mapObjectToRow(obj,
                           SHEET_SCHEMA_VERSIONS(CURRENT_SHEET_SCHEMA_VERSION, tableName))]
    /\ UNCHANGED <<categories, habits, logEntries, settings, storedVersion, isOpen,
                   now, idSeq, ret, dc, tx, app, formData, store, lockScreen, doc,
                   calls>>

\* the row is read back with the same column list
MapRowToObject ==
    /\ view.op = "mapObjectToRow"
    /\ view' = [op |-> "mapRowToObject", tableName |-> view.tableName,
                obj |-> view.obj, row |-> view.row,
                out |-> mapRowToObject(view.row,
                           SHEET_SCHEMA_VERSIONS(CURRENT_SHEET_SCHEMA_VERSION,
                                                 view.tableName),
                           CURRENT_SHEET_SCHEMA_VERSION, view.tableName)]
    /\ UNCHANGED <<categories, habits, logEntries, settings, storedVersion, isOpen,
                   now, idSeq, ret, dc, tx, app, formData, store, lockScreen, doc,
                   calls>>

SheetNext ==
    \/ \E tableName \in SheetTables : \E obj \in SheetObjects(tableName) :
          MapObjectToRow(tableName, obj)
    \/ MapRowToObject

SpecSheet == InitSeeded /\ [][SheetNext]_vars

\* ----------------------------------- logHabit and skipHabit in flight: SpecConcurrentLog
\* the result of where('[habitId+date]').equals([habitId, date]).first()
existingEntry(habitId, date) ==
    IF EntriesFor(habitId, date) = {} THEN <<>> ELSE <<First(EntriesFor(habitId, date))>>

\* logHabit up to its first await: the lookup has answered
LogHabitLookup(habitId, date, value, note) ==
    /\ isOpen
    /\ Len(calls) < MaxInFlight
    /\ calls' = Append(calls, [op |-> "logHabit", habitId |-> habitId, date |-> date,
                               value |-> value, note |-> note, reason |-> "",
                               existing |-> existingEntry(habitId, date)])
    /\ UNCHANGED <<categories, habits, logEntries, settings, storedVersion, isOpen,
                   now, idSeq, ret, dc, tx, app, view, formData, store, lockScreen,
                   doc>>

\* skipHabit up to its first await
SkipHabitLookup(habitId, date, reason) ==
    /\ isOpen
    /\ Len(calls) < MaxInFlight
    /\ calls' = Append(calls, [op |-> "skipHabit", habitId |-> habitId, date |-> date,
                               value |-> "false", note |-> <<>>, reason |-> reason,
                               existing |-> existingEntry(habitId, date)])
    /\ UNCHANGED <<categories, habits, logEntries, settings, storedVersion, isOpen,
                   now, idSeq, ret, dc, tx, app, view, formData, store, lockScreen,
                   doc>>

\* the rest of logHabit: update(existing.id, ...) or add(...)
LogHabitWrite(i) ==
    /\ i \in DOMAIN calls
    /\ calls[i].op = "logHabit"
    /\ LET call == calls[i] IN
       IF call.existing # <<>>
       THEN /\ logEntries' = TableUpdate("logEntries", logEntries, call.existing[1],
                                         logHabitChanges(call.value, call.note))
            /\ ret' = [op |-> "logHabit", arg |-> call.habitId, out |-> call.existing[1]]
            /\ UNCHANGED idSeq
       ELSE /\ idSeq < MaxIds
            /\ logEntries' = TableAdd("logEntries", logEntries,
                                [id |-> generateId, habitId |-> call.habitId,
                                 date |-> call.date, value |-> call.value,
                                 note |-> call.note,
                                 createdAt |-> now, updatedAt |-> now])
            /\ ret' = [op |-> "logHabit", arg |-> call.habitId, out |-> generateId]
            /\ idSeq' = idSeq + 1
    /\ calls' = RemoveAt(calls, i)
    /\ UNCHANGED <<categories, habits, settings, storedVersion, isOpen, now, dc, tx,
                   app, view, formData, store, lockScreen, doc>>

\* the rest of skipHabit
SkipHabitWrite(i) ==
    /\ i \in DOMAIN calls
    /\ calls[i].op = "skipHabit"
    /\ LET call == calls[i] IN
       IF call.existing # <<>>
       THEN /\ logEntries' = TableUpdate("logEntries", logEntries, call.existing[1],
                                         skipHabitChanges(call.reason))
            /\ ret' = [op |-> "skipHabit", arg |-> call.habitId, out |-> call.existing[1]]
            /\ UNCHANGED idSeq
       ELSE /\ idSeq < MaxIds
            /\ logEntries' = TableAdd("logEntries", logEntries,
                                [id |-> generateId, habitId |-> call.habitId,
                                 date |-> call.date, value |-> "false",
                                 skippedReason |-> <<call.reason>>,
                                 createdAt |-> now, updatedAt |-> now])
            /\ ret' = [op |-> "skipHabit", arg |-> call.habitId, out |-> generateId]
            /\ idSeq' = idSeq + 1
    /\ calls' = RemoveAt(calls, i)
    /\ UNCHANGED <<categories, habits, settings, storedVersion, isOpen, now, dc, tx,
                   app, view, formData, store, lockScreen, doc>>

\* the card's buttons: done without a note, and skip
ConcurrentLogNext ==
    \/ \E h \in LogHabitIds, d \in Dates : LogHabitLookup(h, d, "true", <<>>)
    \/ \E h \in LogHabitIds, d \in Dates, r \in Reasons : SkipHabitLookup(h, d, r)
    \/ \E i \in 1..MaxInFlight : LogHabitWrite(i)
    \/ \E i \in 1..MaxInFlight : SkipHabitWrite(i)

SpecConcurrentLog == InitSeeded /\ [][ConcurrentLogNext]_vars

\* ------------------- the habit calls with complete reorder lists: SpecOrder
OrderNext ==
    \/ tx = NoTx /\ \E data \in HabitData({SHUBH_HISAB_ID, ASHUBH_HISAB_ID}) : CreateHabit(data)
    \/ tx = NoTx /\ \E id \in DOMAIN habits : ArchiveHabit(id)
    \/ tx = NoTx /\ \E id \in DOMAIN habits : DisableHabit(id)
    \/ tx = NoTx /\ \E id \in DOMAIN habits : EnableHabit(id)
    \/ \E id \in DOMAIN habits : DeleteHabitBegin(id, FALSE)
    \/ DeleteHabitHabit
    \/ \E c \in {SHUBH_HISAB_ID, ASHUBH_HISAB_ID} :
          \E orderedIds \in DistinctSeqs(ActiveInCategory(habits, c)) :
              ReorderHabitsBegin(c, orderedIds)
    \/ ReorderUpdate
    \/ TxCommit

SpecOrder == InitSeeded /\ [][OrderNext]_vars

\* -------------------------------------------------------- calculateStreak
\* the days of January 2026 that are logged and asked about in SpecStreak
StreakDays == 3..6

StreakHabitIds == {"h1"}

\* the date key of a day of January 2026
StreakKey(day) == formatDateKey(<<2026, 1, day>>)

\* 1000 * 60 * 60 * 24
DayMs == 1000 * 60 * 60 * 24

\* new Date(key).getTime() for a key 'YYYY-MM-DD' of January 2026, counted
\* from midnight UTC of 1 January 2026
DateTime(key) == (DigitsValue(SubSeq(key, 9, 10), 0) - 1) * DayMs

\* where('habitId').equals(habitId)
\*     .filter(e => e.date <= upToDate && e.value === true)
StreakEntries(habitId, upToDate) ==
    {e \in DOMAIN logEntries :
        /\ logEntries[e].habitId = habitId
        /\ ~StringLess(upToDate, logEntries[e].date)
        /\ logEntries[e].value = "true"}

\* .sortBy('date') and then entries.reverse()
SortedByDateReversed(ids) ==
    CHOOSE q \in DistinctSeqs(ids) :
        \A i, j \in DOMAIN q :
            i < j => ~StringLess(logEntries[q[i]].date, logEntries[q[j]].date)

\* the for loop from the i-th entry on; setDate(getDate() - 1) moves the
\* time back by one day (no clock change falls in these days)
RECURSIVE StreakLoop(_, _, _, _)
StreakLoop(entries, i, streak, expectedDate) ==
    IF i > Len(entries) THEN streak
    ELSE LET entryDate == DateTime(logEntries[entries[i]].date)
             diffDays == (expectedDate - entryDate) \div DayMs
         IN  IF diffDays = 0
             THEN StreakLoop(entries, i + 1, streak + 1, expectedDate - DayMs)
             ELSE IF diffDays = 1
             THEN StreakLoop(entries, i + 1, streak + 1, entryDate - DayMs)
             ELSE streak

calculateStreak(habitId, upToDate) ==
    LET entries == StreakEntries(habitId, upToDate)
    IN  IF entries = {} THEN 0
        ELSE StreakLoop(SortedByDateReversed(entries), 1, 0, DateTime(upToDate))

CalculateStreak(habitId, upToDate) ==
    /\ isOpen
    /\ view' = [op |-> "calculateStreak", habitId |-> habitId, upToDate |-> upToDate,
                out |-> calculateStreak(habitId, upToDate)]
    /\ UNCHANGED <<categories, habits, logEntries, settings, storedVersion, isOpen,
                   now, idSeq, ret, dc, tx, app, formData, store, lockScreen, doc,
                   calls>>

\* ------------------------------------------- streaks over the logs: SpecStreak
StreakNext ==
    \/ \E h \in StreakHabitIds, day \in StreakDays :
          LogHabit(h, StreakKey(day), "true", <<>>)
    \/ \E h \in StreakHabitIds, day \in StreakDays, r \in Reasons :
          SkipHabit(h, StreakKey(day), r)
    \/ \E h \in StreakHabitIds, day \in StreakDays : CalculateStreak(h, StreakKey(day))

SpecStreak == InitSeeded /\ [][StreakNext]_vars

\* ====================================================== claims on logging
\* what useLogEntry(habitId, date) can find: the entries stored for the pair
PairEntries(table, habitId, date) ==
    {id \in DOMAIN table : table[id].habitId = habitId /\ table[id].date = date}

\* every entry outside ids is the same in both tables
SameOutside(old, new, ids) ==
    \A id \in (DOMAIN old \cup DOMAIN new) \ ids :
        id \in DOMAIN old /\ id \in DOMAIN new /\ new[id] = old[id]

\* C1: under sequential logHabit/skipHabit calls every (habitId, date) pair
\* holds at most one entry, a pair that has an entry keeps that entry's id,
\* and every call returns the id of the pair's one entry - so all calls for
\* a pair return the id the first call returned.
UpsertUniqueness ==
    [][/\ \A h \in LogHabitIds, d \in Dates :
            /\ Cardinality(PairEntries(logEntries', h, d)) <= 1
            /\ PairEntries(logEntries, h, d) # {}
                 => PairEntries(logEntries', h, d) = PairEntries(logEntries, h, d)
       /\ \A h \in LogHabitIds, d \in Dates :
            ((\E v \in Values, n \in Notes : LogHabit(h, d, v, n))
               \/ (\E r \in Reasons : SkipHabit(h, d, r)))
            => PairEntries(logEntries', h, d) = {ret'.out}]_vars

\* both pairs hold an entry and the last call returned the id of an entry
\* that an earlier call had created
UpsertUniquenessWitness ==
    /\ \A h \in LogHabitIds, d \in Dates : PairEntries(logEntries, h, d) # {}
    /\ ret.op \in {"logHabit", "skipHabit"}
    /\ ret.out \in DOMAIN logEntries
    /\ logEntries[ret.out].updatedAt > logEntries[ret.out].createdAt

LogHabitClearsSkip ==
    (ret.op = "logHabit" /\ ret.out \in DOMAIN logEntries)
        => Get(logEntries[ret.out], "skippedReason") = <<>>

\* =================================================== claims on categories
FixedCategories(cats) == {c \in DOMAIN cats : Has(cats[c], "isFixed") /\ cats[c].isFixed}

\* C3: in every state after the first seeding exactly two categories are
\* fixed, one of hisabType 'shubh' and one of hisabType 'ashubh'.
FixedCategoryInvariant ==
    /\ Cardinality(FixedCategories(categories)) = 2
    /\ \E c \in FixedCategories(categories) : Get(categories[c], "hisabType") = "shubh"
    /\ \E c \in FixedCategories(categories) : Get(categories[c], "hisabType") = "ashubh"

FixedCategoryProtected ==
    [][\A c \in DOMAIN categories :
        (DeleteCategory(c) /\ categories[c].isFixed) =>
          /\ ret'.out = "Cannot delete fixed category"
          /\ categories' = categories
          /\ habits' = habits]_vars

\* the delete of a fixed category that owns a habit was refused
FixedCategoryProtectedWitness ==
    /\ ret.op = "deleteCategory" /\ ret.out = "Cannot delete fixed category"
    /\ ret.arg \in DOMAIN categories
    /\ \E h \in DOMAIN habits : habits[h].categoryId = ret.arg

\* C8: once deleteCategory(C) has completed no habit has categoryId = C,
\* whatever ran between its reassignment and its delete.
DeleteCategoryAtomic ==
    (ret.op = "deleteCategory" /\ ret.out = "ok")
        => \A h \in DOMAIN habits : habits[h].categoryId # ret.arg

\* ================================================== claims on the upgrade
\* the record new holds every property of old with its old value
KeepsProperties(old, new) ==
    \A k \in DOMAIN old : k \in DOMAIN new /\ new[k] = old[k]

\* C4: opening a version-1 store runs the upgrade once: records lacking
\* interval, reminderEnabled or hisabType get 'daily', false and 'shubh',
\* every property already present keeps its value, no record is added or
\* removed and no primary key changes; an open at any other version runs
\* no upgrade.
UpgradeDefaults ==
    [][/\ (Open /\ storedVersion = 1) =>
            /\ storedVersion' = CURRENT_DB_VERSION
            /\ DOMAIN categories' = DOMAIN categories
            /\ DOMAIN habits' = DOMAIN habits
            /\ \A c \in DOMAIN categories :
                  /\ KeepsProperties(categories[c], categories'[c])
                  /\ ~Has(categories[c], "hisabType") => categories'[c].hisabType = "shubh"
            /\ \A h \in DOMAIN habits :
                  /\ KeepsProperties(habits[h], habits'[h])
                  /\ ~Has(habits[h], "interval") => habits'[h].interval = "daily"
                  /\ ~Has(habits[h], "reminderEnabled") => habits'[h].reminderEnabled = FALSE
            /\ logEntries' = logEntries /\ settings' = settings
       /\ (Open /\ storedVersion # 1) =>
            /\ categories' = categories /\ habits' = habits]_vars

\* a version-1 store was opened: one category and the habit were defaulted,
\* the other category kept the hisabType it had
UpgradeDefaultsWitness ==
    /\ ret.op = "open" /\ ret.arg = "1"
    /\ "0" \in DOMAIN categories /\ categories["0"].hisabType = "shubh"
    /\ "old" \in DOMAIN categories /\ categories["old"].hisabType = "ashubh"
    /\ "0" \in DOMAIN habits /\ habits["0"].interval = "daily"
    /\ habits["0"].reminderEnabled = FALSE

\* ================================================ claims on the snapshots
\* C5: importAllData(exportAllData()) leaves all four tables as they were.
SnapshotRoundTrip ==
    [][ImportAllData(exportAllData) =>
        /\ categories' = categories
        /\ habits' = habits
        /\ logEntries' = logEntries
        /\ settings' = settings]_vars

\* C6: after the import of a schema-version-1 snapshot every habit has an
\* interval and a reminderEnabled and every category a hisabType.
ImportUpgradesOldSnapshot ==
    (ret.op = "importAllData" /\ ret.arg = "1") =>
        /\ \A h \in DOMAIN habits :
              Has(habits[h], "interval") /\ Has(habits[h], "reminderEnabled")
        /\ \A c \in DOMAIN categories : Has(categories[c], "hisabType")

\* C11: skipHabit leaves the pair with one entry, the one it returns, whose
\* skippedReason is the reason given and whose value is the sentinel false,
\* whether the entry was inserted or already there.
SkipHabitSetsSentinel ==
    [][\A h \in LogHabitIds, d \in Dates, r \in Reasons :
        SkipHabit(h, d, r) =>
          /\ PairEntries(logEntries', h, d) = {ret'.out}
          /\ Get(logEntries'[ret'.out], "skippedReason") = <<r>>
          /\ logEntries'[ret'.out].value = "false"]_vars

\* C19: an import of a snapshot that lacks categories, habits, logEntries
\* or settings fails and leaves all four tables as they were.
ImportMissingFieldFails ==
    [][\A data \in BrokenSnapshots :
        ImportAllData(data) =>
          /\ ret'.out # "ok"
          /\ categories' = categories /\ habits' = habits
          /\ logEntries' = logEntries /\ settings' = settings]_vars

\* an import of a damaged snapshot has failed on a store that holds an
\* imported category, a habit and a log entry
ImportMissingFieldFailsWitness ==
    /\ ret.op = "importAllData" /\ ret.out = "TypeError"
    /\ "0" \in DOMAIN categories
    /\ DOMAIN habits # {}
    /\ DOMAIN logEntries # {}

\* ======================================================= claims on habits
\* the highest order among the habits ids of the table hs
MaxOrder(hs, ids) == CHOOSE o \in {hs[h].order : h \in ids} : \A h \in ids : hs[h].order <= o

\* C12: createHabit stores a new habit under an id no habit had, active, and
\* with order one above the highest order among the active habits of its
\* category (0 when the category has no active habit).
CreateHabitOrder ==
    [][\A data \in HabitData({SHUBH_HISAB_ID, ASHUBH_HISAB_ID}) :
        CreateHabit(data) =>
          LET id == ret'.out
              actives == {h \in DOMAIN habits :
                            habits[h].categoryId = data.categoryId /\ habits[h].isActive}
          IN  /\ id \notin DOMAIN habits
              /\ DOMAIN habits' = DOMAIN habits \cup {id}
              /\ habits'[id].isActive = TRUE
              /\ habits'[id].order =
                    IF actives = {} THEN 0 ELSE 1 + MaxOrder(habits, actives)]_vars

\* C14: deleteHabit takes effect in one step, its commit: the habit goes,
\* with deleteEntries so do exactly the log entries of that habit and
\* without it no log entry changes, every other habit and entry stays as it
\* was; until the commit, and when the transaction aborts, the habits and
\* the log entries are what they were before the call.
DeleteHabitTransaction ==
    [][/\ (TxCommit /\ tx.op = "deleteHabit") =>
            /\ DOMAIN habits' = DOMAIN habits \ {tx.arg}
            /\ \A h \in DOMAIN habits' : habits'[h] = habits[h]
            /\ DOMAIN logEntries' =
                  IF tx.deleteEntries
                  THEN {e \in DOMAIN logEntries : logEntries[e].habitId # tx.arg}
                  ELSE DOMAIN logEntries
            /\ \A e \in DOMAIN logEntries' : logEntries'[e] = logEntries[e]
       /\ (tx.op = "deleteHabit" /\ ~TxCommit) =>
            /\ habits' = habits
            /\ logEntries' = logEntries]_vars

\* a deleteHabit with deleteEntries has deleted the entries of the habit and
\* not yet the habit: the tables still hold the habit and its entries
DeleteHabitTransactionWitness ==
    /\ tx.op = "deleteHabit" /\ tx.pc = "habit" /\ tx.deleteEntries
    /\ tx.arg \in DOMAIN tx.work.habits
    /\ \A e \in DOMAIN tx.work.logEntries : tx.work.logEntries[e].habitId # tx.arg
    /\ tx.arg \in DOMAIN habits
    /\ \E e \in DOMAIN logEntries : logEntries[e].habitId = tx.arg

\* ====================================== claims on a failing or repeated open
\* every category has a hisabType, every habit an interval and a reminderEnabled
Migrated ==
    /\ \A c \in DOMAIN categories : Has(categories[c], "hisabType")
    /\ \A h \in DOMAIN habits :
          Has(habits[h], "interval") /\ Has(habits[h], "reminderEnabled")

\* C17: when the upgrade of a version-1 store fails at any point the open
\* fails, the store stays at version 1 and every record is as it was; and
\* whenever the store shows version 2 every category and habit is migrated.
UpgradeAllOrNothing ==
    /\ [](storedVersion = CURRENT_DB_VERSION => Migrated)
    /\ [][(TxAbort /\ tx.op = "open") =>
            /\ storedVersion' = 1
            /\ ~isOpen'
            /\ ret'.out # "ok"
            /\ categories' = categories /\ habits' = habits
            /\ logEntries' = logEntries /\ settings' = settings]_vars

\* the upgrade failed after it had transformed the categories and before it
\* transformed the habits: the store is at version 1 and still holds a
\* category without hisabType and a habit without interval
UpgradeAllOrNothingWitness ==
    /\ ret.op = "open" /\ ret.out = "aborted at habits"
    /\ storedVersion = 1 /\ ~isOpen
    /\ \E c \in DOMAIN categories : ~Has(categories[c], "hisabType")
    /\ \E h \in DOMAIN habits : ~Has(habits[h], "interval")

\* the habit already has every property the upgrade adds
HabitMigrated(habit) ==
    \A k \in {"interval", "trackingDay", "trackingDate", "reminderEnabled", "reminderTime"} :
        Has(habit, k)

\* C18: an open of a store at the current version runs no upgrade and
\* leaves every record as it is; a store that shows the current version
\* keeps it, so the upgrade runs at most once; and where the upgrade runs,
\* a record that already has the added properties comes out unchanged.
OpenIdempotent ==
    [][/\ (Open /\ storedVersion = CURRENT_DB_VERSION) =>
            /\ categories' = categories /\ habits' = habits
            /\ logEntries' = logEntries /\ settings' = settings
       /\ storedVersion = CURRENT_DB_VERSION => storedVersion' = CURRENT_DB_VERSION
       /\ (Open /\ 0 < storedVersion /\ storedVersion < CURRENT_DB_VERSION) =>
            /\ \A c \in DOMAIN categories :
                  Has(categories[c], "hisabType") => categories'[c] = categories[c]
            /\ \A h \in DOMAIN habits :
                  HabitMigrated(habits[h]) => habits'[h] = habits[h]]_vars

\* a store that the upgrade had migrated was opened again at version 2: the
\* defaulted category and the category that had its own hisabType are both
\* as the upgrade left them
OpenIdempotentWitness ==
    /\ ret.op = "open" /\ ret.arg = "2"
    /\ "0" \in DOMAIN categories /\ Get(categories["0"], "hisabType") = "shubh"
    /\ "old" \in DOMAIN categories /\ Get(categories["old"], "hisabType") = "ashubh"
    /\ "0" \in DOMAIN habits /\ Get(habits["0"], "interval") = "daily"

\* ==================================================== claims on reordering
\* new is old with the record at position i of ids (counted from 1) given
\* order i - 1, and every record not in ids left as it was
Renumbered(old, new, ids) ==
    /\ DOMAIN new = DOMAIN old
    /\ \A i \in DOMAIN ids : new[ids[i]] = [old[ids[i]] EXCEPT !.order = i - 1]
    /\ \A k \in DOMAIN old : (\A i \in DOMAIN ids : ids[i] # k) => new[k] = old[k]

\* C15: reorderCategories and reorderHabits, given distinct existing ids,
\* give the record at (0-based) position i of the list order i and leave
\* every other record alone; the renumbering shows all at once, at the
\* commit, and not at all when the transaction aborts.
ReorderAssignsIndex ==
    [][/\ (TxCommit /\ tx.op = "reorderCategories") =>
            /\ Renumbered(categories, categories', tx.orderedIds)
            /\ habits' = habits
       /\ (TxCommit /\ tx.op = "reorderHabits") =>
            /\ Renumbered(habits, habits', tx.orderedIds)
            /\ categories' = categories
       /\ (tx.op \in {"reorderCategories", "reorderHabits"} /\ ~TxCommit) =>
            /\ categories' = categories
            /\ habits' = habits]_vars

\* a reorder of the first two of three habits has committed, after one that
\* swapped the fixed categories: the two habits have swapped places and the
\* third habit kept its order
ReorderAssignsIndexWitness ==
    /\ ret.op = "reorderHabits" /\ ret.out = "ok"
    /\ categories[ASHUBH_HISAB_ID].order = 0
    /\ categories[SHUBH_HISAB_ID].order = 1
    /\ DOMAIN habits = {"1", "2", "3"}
    /\ habits["2"].order = 0 /\ habits["1"].order = 1 /\ habits["3"].order = 2

\* ================================================ claims on range queries
\* the calendar order of two days <<year, month, day>>
DayLeq(a, b) ==
    \/ a[1] < b[1]
    \/ a[1] = b[1] /\ a[2] < b[2]
    \/ a[1] = b[1] /\ a[2] = b[2] /\ a[3] <= b[3]

\* C16: getLogEntriesInRange(a, b) returns exactly the stored entries whose
\* day lies between the days a and b, both included, whatever their habit
\* and the order in which they were logged; it returns none when a is
\* after b.
RangeQueryExact ==
    [][\A a \in RangeDays, b \in RangeDays :
        (/\ view' # view
         /\ view'.op = "getLogEntriesInRange"
         /\ view'.startDate = DateKeyOf[a]
         /\ view'.endDate = DateKeyOf[b]) =>
          view'.out = {logEntries[e] : e \in {x \in DOMAIN logEntries :
                          \E day \in RangeDays :
                              /\ logEntries[x].date = DateKeyOf[day]
                              /\ DayLeq(a, day) /\ DayLeq(day, b)}}]_vars

\* a query from 31 December to 5 January returned two entries of different
\* habits, the later day logged first, and left out an entry of 10 January
RangeQueryExactWitness ==
    /\ view.op = "getLogEntriesInRange"
    /\ view.startDate = DateKeyOf[<<2025, 12, 31>>]
    /\ view.endDate = DateKeyOf[<<2026, 1, 5>>]
    /\ \E e1 \in view.out, e2 \in view.out :
          /\ e1.habitId # e2.habitId
          /\ e1.date = view.endDate /\ e2.date = view.startDate
          /\ IdNum(e1.id) < IdNum(e2.id)
    /\ \E e \in DOMAIN logEntries : logEntries[e] \notin view.out

\* ==================================================== claims on the views
\* the active habits whose category carries the tag (all of them without one)
TaggedActiveHabits(hisabType) ==
    {h \in DOMAIN habits :
        /\ habits[h].isActive = TRUE
        /\ hisabType # <<>> =>
              /\ habits[h].categoryId \in DOMAIN categories
              /\ Get(categories[habits[h].categoryId], "hisabType") = hisabType[1]}

\* C13: useHabitsWithLogs(date, tag) lists, by ascending order, exactly the
\* active habits whose category has that hisabType (every active habit when
\* no tag is given), each with its log entry for the date or with none.
HabitsWithLogsByTag ==
    [][\A d \in Dates, t \in HisabTypes :
        UseHabitsWithLogs(d, t) =>
          LET out == view'.out IN
          /\ {out[i].habit : i \in DOMAIN out} = TaggedActiveHabits(t)
          /\ \A i, j \in DOMAIN out :
                i < j => /\ out[i].habit # out[j].habit
                         /\ habits[out[i].habit].order <= habits[out[j].habit].order
          /\ \A i \in DOMAIN out :
                IF PairEntries(logEntries, out[i].habit, d) = {}
                THEN out[i].log = <<>>
                ELSE /\ out[i].log # <<>>
                     /\ out[i].log[1] \in PairEntries(logEntries, out[i].habit, d)]_vars

\* ======================================================= claims on the App
\* C20: a page is rendered only once a seedDefaultCategories call has
\* completed successfully.
PagesAfterSeeding ==
    PageRendered => \E run \in 1..2 : app.seed[run] = "ok"


\* ================================================= claims on the habit form
\* the property holds a value other than undefined
Present(o, k) == Get(o, k) # <<>>

HabitWellFormed(h) ==
    /\ IF h.type = "rating"
       THEN Present(h, "options") /\ Len(h.options[1]) >= 2
       ELSE ~Present(h, "options")
    /\ Present(h, "trackingDay") <=> h.interval = "weekly"
    /\ IF h.interval = "monthly"
       THEN Present(h, "trackingDate") /\ h.trackingDate[1] \in 1..31
       ELSE ~Present(h, "trackingDate")

\* C21: every habit that the habit form wrote (created or edited) has
\* options, with at least two entries, exactly when its type is 'rating',
\* trackingDay exactly when its interval is 'weekly' and trackingDate, within
\* 1..31, exactly when its interval is 'monthly'; and the habits table is
\* written only by a submit whose validation found no error.
HabitFormContract ==
    /\ [](\A id \in DOMAIN habits : HabitWellFormed(habits[id]))
    /\ [][habits' # habits => formData.open /\ validate(formData) = {}]_vars
    /\ [][(ret' # ret /\ ret'.out = "invalid") => habits' = habits]_vars

\* the form edited a stored habit into a monthly rating habit with two
\* options, and a later submit was turned down by the validation
HabitFormContractWitness ==
    /\ ret.op = "handleSubmit"
    /\ ret.out = "invalid"
    /\ formData.open
    /\ formData.habit # <<>>
    /\ "trackingDate" \in validate(formData)
    /\ \E id \in DOMAIN habits :
          /\ habits[id].type = "rating"
          /\ Len(habits[id].options[1]) = 2
          /\ habits[id].interval = "monthly"
          /\ habits[id].trackingDate = <<15>>
          /\ ~Present(habits[id], "trackingDay")

\* ================================================== claims on the settings
\* C22: setSetting(k, v) stores v under k and touches no other key, so that
\* a repeated call changes nothing; getSetting(k) returns the stored value
\* of k, and the default of k in DEFAULT_SETTINGS when k was never written.
SettingsReadBack ==
    /\ [][(ret'.op = "setSetting" /\ (ret' # ret \/ settings' # settings)) =>
            LET key == ret'.arg
            IN  /\ DOMAIN settings' = DOMAIN settings \cup {key}
                /\ \E w \in SettingWrites : w[1] = key /\ settings'[key] = w[2]
                /\ \A k \in DOMAIN settings \ {key} : settings'[k] = settings[k]
                /\ (key \in DOMAIN settings /\ settings[key] = settings'[key])
                      => settings' = settings]_vars
    /\ [][(view'.op = "getSetting" /\ settings' = settings /\ ret' = ret) =>
               view'.value = IF view'.key \in DOMAIN settings
                             THEN <<settings[view'.key]>>
                             ELSE DEFAULT_SETTINGS[view'.key]]_vars

\* ================================================= claims on the telemetry
\* C23: whatever the profile and analytics calls do, logAnalyticsEvent never
\* rejects, and in every run of the start-up sign-in check isCheckingAuth
\* eventually becomes false.
TelemetryNeverBlocks ==
    /\ [](ret.op = "logAnalyticsEvent" => ret.out = "resolved")
    /\ <>(~app.isCheckingAuth)

\* =============================================== claims on the lock screen
\* C25: after three incorrect PIN entries in a row the lock screen is locked
\* out and accepts no entry until 30 seconds have passed; the lockout is
\* started by nothing less than three incorrect entries, and when it expires
\* the attempts are reset to zero.
PinLockout ==
    /\ [](lockScreen.failed >= 3 =>
             lockScreen.lockoutUntil # <<>> /\ lockScreen.isLockedOut)
    /\ [](lockScreen.lockoutUntil # <<>> => lockScreen.failed >= 3)
    /\ [][Len(lockScreen'.verifying) > Len(lockScreen.verifying) =>
             (lockScreen.lockoutUntil = <<>> \/ now >= lockScreen.lockoutUntil[1])]_vars
    /\ [][(lockScreen.lockoutUntil # <<>> /\ lockScreen'.lockoutUntil = <<>>) =>
             /\ now >= lockScreen.lockoutUntil[1]
             /\ lockScreen'.attempts = 0]_vars

\* ========================================================= claims on the PIN
\* a page is rendered while PIN protection is enabled
PageOpenWithPin == PageRendered /\ store.pinEnabled

\* C24: while PIN protection is enabled, also after the page was loaded
\* again, a page comes to be rendered only by the step in which a PIN whose
\* hash equals the stored pinHash is verified on the lock screen.
PinGate ==
    [][(PageOpenWithPin' /\ ~PageOpenWithPin) =>
          \E i \in 1..Len(lockScreen.verifying) :
             verifyPin(lockScreen.verifying[i].pin, store.pinHash[1])]_vars

\* C26: with the PIN enabled and the app unlocked, the auto-lock locks the
\* app only when the document is hidden and has been hidden without a break
\* for the last 30 seconds at least.
AutoLockAfterContinuousHide ==
    [][(store'.isLocked /\ ~store.isLocked) =>
          /\ doc.visibilityState = "hidden"
          /\ doc.hiddenSince # <<>>
          /\ now - doc.hiddenSince[1] >= LOCK_SECONDS]_vars

\* C27: a record written as a row and read back with the same column list
\* has, on every column where the record has a value, that same value.
RowRoundTrip ==
    view.op = "mapRowToObject" =>
        \A col \in DOMAIN view.out :
            Prop(view.obj, col).type \notin {"null", "undefined"} =>
                view.out[col] = view.obj[col]

\* C28: with logHabit and skipHabit calls in flight at the same time, every
\* (habitId, date) pair still holds at most one entry.
ConcurrentUpsertUniqueness ==
    \A h \in LogHabitIds, d \in Dates :
        Cardinality(PairEntries(logEntries, h, d)) <= 1

\* C29: the active habits of one category have pairwise distinct order
\* values in every state the habit calls reach.
DistinctActiveOrders ==
    \A a, b \in DOMAIN habits :
        (/\ a # b
         /\ habits[a].isActive = TRUE
         /\ habits[b].isActive = TRUE
         /\ habits[a].categoryId = habits[b].categoryId)
            => habits[a].order # habits[b].order

\* the habit has an entry with value true on that day of January 2026
DoneOn(habitId, day) ==
    \E e \in DOMAIN logEntries :
        /\ logEntries[e].habitId = habitId
        /\ logEntries[e].date = StreakKey(day)
        /\ logEntries[e].value = "true"

\* the number of consecutive days with such an entry, counted back from day
RECURSIVE RunEndingAt(_, _)
RunEndingAt(habitId, day) ==
    IF day < 1 \/ ~DoneOn(habitId, day) THEN 0
    ELSE 1 + RunEndingAt(habitId, day - 1)

\* C30: calculateStreak returns the length of the run of consecutive days
\* with a value-true entry that ends at upToDate, or at the day before it
\* when upToDate has no such entry; a day without one ends the run.
StreakIsRunLength ==
    [][\A h \in StreakHabitIds, day \in StreakDays :
          CalculateStreak(h, StreakKey(day)) =>
              view'.out = IF DoneOn(h, day) THEN RunEndingAt(h, day)
                          ELSE RunEndingAt(h, day - 1)]_vars
====
